---- MODULE Spec2Model ----
(***************************************************************************)
(* Orchestration and queueing core of nova-email-service: the backfill     *)
(* orchestrator (both variants of backfill-processor.ts), the thread-sync  *)
(* worker, the webhook consumer, NylasSync, and the completion monitor,    *)
(* over the shared tables and the pgmq queues.                             *)
(*                                                                         *)
(* One configuration C with one inbox is modelled.  Every action is one    *)
(* database, queue or provider round trip of the code (an await), together *)
(* with the local computation that follows it up to the next round trip    *)
(* (the monitor's read of the row counts and its write of the stats row    *)
(* are one step, see MonUpdateStats).                                      *)
(***************************************************************************)
EXTENDS Integers, Sequences, FiniteSets, TLC

\* ------------------------------------------------------------------ bounds
\* Provider failures (a thrown provider call) injected in one behaviour.
MaxFail == 1
\* Process deaths (of the orchestrator or of a worker) in one behaviour.
MaxCrash == 1
\* Visibility timeouts that end before the message was deleted, in one
\* behaviour.
MaxTimeout == 1
\* Highest msg_id the queues hand out in one behaviour.
MaxMsgId == 6
\* The rows one select of recoverOrphanedThreads returns at most (BATCH_SIZE,
\* 1000 in the source), scaled to the number of threads so that a full batch
\* happens.
MaxBatch == 2

\* ------------------------------------------------------- program constants
THREAD_MAX_RETRIES == 5
BACKFILL_MAX_RETRIES == 3
WEBHOOK_MAX_RETRIES == 3

\* ------------------------------------------------------------ the provider
\* The remote mailbox of the end-to-end scenario: thread T1 with messages M1
\* and M2, thread T2 with message M3.
ThreadIds == {"T1", "T2"}
MessageIds == {"M1", "M2", "M3"}

ProviderMessages(t) ==
  IF t = "T1" THEN <<"M1", "M2">> ELSE IF t = "T2" THEN <<"M3">> ELSE <<>>

ProviderThreadOf(m) == IF m = "M3" THEN "T2" ELSE "T1"

\* threads.list pages; a page token is the index of the page to fetch and 0
\* stands for an absent token (undefined).
ProviderPages == << <<"T1">>, <<"T2">> >>
NoToken == 0
ListPage(token) ==
  LET k == IF token = NoToken THEN 1 ELSE token
  IN  IF k > Len(ProviderPages)
        THEN [data |-> <<>>, nextCursor |-> NoToken]
        ELSE [data |-> ProviderPages[k],
              nextCursor |-> IF k < Len(ProviderPages) THEN k + 1 ELSE NoToken]

\* Grants: the job and the inbox binding hold grant G; "" is a null or empty
\* grant_id.
NoGrant == ""
JobGrant == "G"

Hook == "hook"

RangeOf(s) == {s[i] : i \in 1..Len(s)}

VARIABLES
  deploy,         \* deployment: which backfill-processor.ts runs ("bulk" |
                  \* "immediate"), TESTING_MODE, ENABLE_AUTO_RECOVERY
  threads,        \* support_email_threads: number of rows per nylas_thread_id
  messages,       \* support_email_messages: number of rows per nylas_message_id
  queued_threads, \* work rows: per thread id the rows of key (C, thread id)
  cfg,            \* the support_inbox_configurations row of C
  stats,          \* the inbox_sync_stats row of C
  inbox_grant,    \* support_inboxes.nylas_grant_id of the inbox
  backfill_q,     \* pgmq queue inbox_backfill_jobs
  thread_q,       \* pgmq queue thread_sync_jobs
  webhook_q,      \* pgmq queue nylas_webhook_notifications
  notif,          \* support_webhook_notifications: status per notification
  nextId,         \* next msg_id the queues hand out
  o,              \* the orchestrator process
  wk,             \* the thread-sync worker processes
  hk,             \* the webhook consumer process
  sm,             \* per caller, the NylasSync.syncMessage call in flight
  mon,            \* the completion monitor process
  budget,         \* faults the environment may still inject: thrown provider
                  \* calls, process deaths, visibility timeouts
  obs,            \* observations of the last step (what an operation just did)
  extraction_queue, \* email_extraction_queue: per thread its tracking rows
  extraction_jobs,  \* pgmq queue email_extraction_jobs and its next msg_id
  xthreads,       \* support_email_threads: extraction_status per thread and
                  \* whether its extraction record exists
  xe,             \* the extraction enqueuer process
  xw,             \* the extraction worker process
  xcfg,           \* config.pgmq.enabled
  svc             \* the service process of index.ts: running or exited

tables == <<threads, messages, queued_threads, cfg, stats, inbox_grant>>
queues == <<backfill_q, thread_q, webhook_q, notif, nextId>>
procs == <<o, wk, hk, sm, mon>>
env == <<deploy, budget>>
more == <<extraction_queue, extraction_jobs, xthreads, xe, xw, xcfg, svc>>
vars == <<deploy, threads, messages, queued_threads, cfg, stats, inbox_grant,
          backfill_q, thread_q, webhook_q, notif, nextId, o, wk, hk, sm, mon,
          budget, obs,
         extraction_queue, extraction_jobs, xthreads, xe, xw, xcfg, svc>>

\* ----------------------------------------------------- persisted tables

\* A threads table without the unique index: no insert is refused.
ThreadNoUniqueIndex(tbl, id) == FALSE

\* The unique index on support_email_threads.nylas_thread_id: an insert of a
\* key that is present is refused.
ThreadUniqueViolation(tbl, id) == tbl[id] > 0

\* The unique index on support_email_messages.nylas_message_id.
MessageUniqueViolation(tbl, ids) == \E id \in ids : tbl[id] > 0

InsertedRows(tbl, ids) == [x \in DOMAIN tbl |-> IF x \in ids THEN tbl[x] + 1 ELSE tbl[x]]

\* ------------------------------------------------------------ work rows

NewRow(grant) ==
  [status |-> "queued", grant_id |-> grant, pgmq_queued_at |-> FALSE,
   messages_synced |-> 0]

\* A plain INSERT, with no ON CONFLICT clause and no unique key to hit.
insert_queued_thread_plain(tbl, t, grant) ==
  [tbl EXCEPT ![t] = Append(@, NewRow(grant))]

\* The function before the grant_id fix: ON CONFLICT sets queued_at and
\* status and leaves the grant_id of the row.
insert_queued_thread_status_only(tbl, t, grant) ==
  IF tbl[t] = <<>>
    THEN [tbl EXCEPT ![t] = <<NewRow(grant)>>]
    ELSE [tbl EXCEPT ![t] = [i \in 1..Len(tbl[t]) |-> [tbl[t][i] EXCEPT !.status = "queued"]]]

\* insert_queued_thread_idempotent: INSERT ... ON CONFLICT (config_id,
\* nylas_thread_id) DO UPDATE SET queued_at, status = 'queued', grant_id.
insert_queued_thread_idempotent(tbl, t, grant) ==
  IF tbl[t] = <<>>
    THEN [tbl EXCEPT ![t] = <<NewRow(grant)>>]
    ELSE [tbl EXCEPT ![t] =
            [i \in 1..Len(tbl[t]) |->
               [tbl[t][i] EXCEPT !.status = "queued", !.grant_id = grant]]]

\* UPDATE queued_threads SET ... WHERE config_id, thread_id AND status = from.
UpdateRowsWhere(tbl, t, from, upd(_)) ==
  [tbl EXCEPT ![t] =
     [i \in 1..Len(tbl[t]) |->
        IF tbl[t][i].status = from THEN upd(tbl[t][i]) ELSE tbl[t][i]]]

AllRows(tbl) == UNION {{<<t, i>> : i \in 1..Len(tbl[t])} : t \in DOMAIN tbl}
RowsIn(tbl, st) == {r \in AllRows(tbl) : tbl[r[1]][r[2]].status = st}

RECURSIVE SumSynced(_, _)
SumSynced(tbl, rs) ==
  IF rs = {} THEN 0
  ELSE LET r == CHOOSE x \in rs : TRUE
       IN  tbl[r[1]][r[2]].messages_synced + SumSynced(tbl, rs \ {r})

\* ------------------------------------------------------------ pgmq queues
\* A queue is a set of messages [id, read_ct, vis, ...payload].

Visible(q) == {m \in q : m.vis}

\* pgmq read of one message: it turns invisible and its read_ct goes up.
ReadMsg(q, m) == (q \ {m}) \cup {[m EXCEPT !.vis = FALSE, !.read_ct = m.read_ct + 1]}

\* pgmq delete by msg_id (no effect when the message is gone).
DeleteMsg(q, id) == {m \in q : m.id # id}

NoObs == [op |-> "none"]

\* ------------------------------------------------ NylasSync.syncMessage
\* sm[p] is the call of syncMessage that caller p (a thread-sync worker or
\* the webhook consumer) has in flight; pc "ok" is a normal return and "err"
\* a thrown error, both consumed by the caller.

SmIdle == [pc |-> "idle", mid |-> "", toInsert |-> {}]
SmCall(mid) == [pc |-> "check_message", mid |-> mid, toInsert |-> {}]
SmReturned == {"idle", "ok", "err"}

\* What one round trip of a call leaves: the call, the two tables, and
\* whether an insert was refused.
SmResult(call, pc, ins, thr, msg, refused) ==
  [sm |-> [call EXCEPT !.pc = pc, !.toInsert = ins], threads |-> thr,
   messages |-> msg, refused |-> refused]

\* One round trip of syncMessage, syncNewThread, insertThread, insertMessages
\* or insertMessage, by the position of the call:
\*   check_message          select the message; present -> return
\*   check_thread           (messages.find, then) select the thread
\*   insertThread_check     (threads.find, messages.list, then) the defensive
\*                          select of insertThread
\*   insertThread_insert    the insert; a refused insert is thrown
\*   insertMessages_select  select the ids already present, keep the others
\*   insertMessages_insert  one batch insert, refused as a whole when one of
\*                          its rows is
\*   insertMessage_check    the defensive select of insertMessage
\*   insertMessage_insert   the insert of the single message
\* A lookup that never finds the row.
MessageNeverFound(msg, mid) == FALSE

\* select ... from support_email_messages where nylas_message_id = mid.
MessageExists(msg, mid) == msg[mid] > 0

syncMessageStep(call, thr, msg) ==
  LET t == ProviderThreadOf(call.mid)
      all == RangeOf(ProviderMessages(t))
      todo == {m \in all : msg[m] = 0}
  IN  CASE call.pc = "check_message" ->
             SmResult(call, IF MessageExists(msg, call.mid) THEN "ok" ELSE "check_thread", {},
                      thr, msg, "")
        [] call.pc = "check_thread" ->
             SmResult(call, IF thr[t] > 0 THEN "insertMessage_check"
                            ELSE "insertThread_check", {}, thr, msg, "")
        [] call.pc = "insertThread_check" ->
             SmResult(call, IF thr[t] > 0 THEN "insertMessages_select"
                            ELSE "insertThread_insert", {}, thr, msg, "")
        [] call.pc = "insertThread_insert" ->
             IF ThreadUniqueViolation(thr, t)
               THEN SmResult(call, "err", {}, thr, msg, "thread")
               ELSE SmResult(call, "insertMessages_select", {},
                             InsertedRows(thr, {t}), msg, "")
        [] call.pc = "insertMessages_select" ->
             SmResult(call, IF todo = {} THEN "ok" ELSE "insertMessages_insert",
                      todo, thr, msg, "")
        [] call.pc = "insertMessages_insert" ->
             IF MessageUniqueViolation(msg, call.toInsert)
               THEN SmResult(call, "err", {}, thr, msg, "message")
               ELSE SmResult(call, "ok", {}, thr,
                             InsertedRows(msg, call.toInsert), "")
        [] call.pc = "insertMessage_check" ->
             SmResult(call, IF msg[call.mid] > 0 THEN "ok"
                            ELSE "insertMessage_insert", {}, thr, msg, "")
        [] call.pc = "insertMessage_insert" ->
             IF MessageUniqueViolation(msg, {call.mid})
               THEN SmResult(call, "err", {}, thr, msg, "message")
               ELSE SmResult(call, "ok", {}, thr, InsertedRows(msg, {call.mid}), "")
        [] OTHER -> SmResult(call, call.pc, call.toInsert, thr, msg, "")

SyncObs(p, refused) ==
  IF refused = "" THEN NoObs ELSE [op |-> refused \o "_insert_refused", by |-> p]

\* The next round trip of the call of caller p.
syncMessage(p) ==
  /\ sm[p].pc \notin SmReturned
  /\ LET r == syncMessageStep(sm[p], threads, messages)
     IN  /\ sm' = [sm EXCEPT ![p] = r.sm]
         /\ threads' = r.threads
         /\ messages' = r.messages
         /\ obs' = SyncObs(p, r.refused)
  /\ UNCHANGED <<queued_threads, cfg, stats, inbox_grant, queues, o, wk, hk, mon, env, more>>

\* messages.find (step 2) or, for a new thread, threads.find / messages.list
\* of syncNewThread throws.
SyncProviderThrows(p) ==
  /\ \/ sm[p].pc = "check_message" /\ messages[sm[p].mid] = 0
     \/ sm[p].pc = "check_thread" /\ threads[ProviderThreadOf(sm[p].mid)] = 0
  /\ budget.fails > 0
  /\ budget' = [budget EXCEPT !.fails = @ - 1]
  /\ sm' = [sm EXCEPT ![p] = [@ EXCEPT !.pc = "err"]]
  /\ obs' = NoObs
  /\ UNCHANGED <<tables, queues, o, wk, hk, mon, deploy, more>>

\* ------------------------------------------------- the thread-sync worker
\* wk[w]: position and locals of ThreadSyncProcessor.runWorker /
\* processThreadJob in worker w.

WkIdle ==
  [pc |-> "poll", msg_id |-> 0, read_ct |-> 0, thread_id |-> "",
   grant_id |-> NoGrant, i |-> 0, synced |-> 0, success |-> FALSE]

\* completeThread(msgId, configId, threadId, messagesSynced, success) is
\* entered: its UPDATE comes next, then its deleteJob.
WkComplete(rec, n, ok) ==
  [rec EXCEPT !.pc = "complete_update", !.synced = n, !.success = ok]

\* A catch that gives the thread up at the first failure.
WkCatchGivesUp(rec) == WkComplete(rec, 0, FALSE)

\* The catch of processThreadJob: mark failed once read_ct >= MAX_RETRIES,
\* else leave the message for its redelivery.
WkCatch(rec) ==
  IF rec.read_ct >= THREAD_MAX_RETRIES THEN WkComplete(rec, 0, FALSE) ELSE WkIdle

\* runWorker: pgmq read of one job, then the retry-limit check of
\* processThreadJob.
ThreadJobRead(w) ==
  /\ wk[w].pc = "poll"
  /\ \E m \in Visible(thread_q) :
       /\ thread_q' = ReadMsg(thread_q, m)
       /\ wk' = [wk EXCEPT ![w] =
            [WkIdle EXCEPT
               !.msg_id = m.id, !.read_ct = m.read_ct + 1,
               !.thread_id = m.thread_id, !.grant_id = m.grant_id,
               !.pc = IF m.read_ct + 1 > THREAD_MAX_RETRIES THEN "limit_delete"
                      ELSE IF m.grant_id = NoGrant THEN "resolve_grant"
                      ELSE "mark"]]
  /\ obs' = NoObs
  /\ UNCHANGED <<tables, backfill_q, webhook_q, notif, nextId, o, hk, sm, mon, env, more>>

\* The retry-limit branch: deleteJob and return.
ThreadJobLimitDelete(w) ==
  /\ wk[w].pc = "limit_delete"
  /\ thread_q' = DeleteMsg(thread_q, wk[w].msg_id)
  /\ wk' = [wk EXCEPT ![w] = WkIdle]
  /\ obs' = [op |-> "retry_limit", t |-> wk[w].thread_id, id |-> wk[w].msg_id,
             by |-> w]
  /\ UNCHANGED <<tables, backfill_q, webhook_q, notif, nextId, o, hk, sm, mon, env, more>>

\* A worker without the lookup: it goes on with the grant_id of the job.
ThreadJobKeepGrant(w) ==
  /\ wk[w].pc = "resolve_grant"
  /\ wk' = [wk EXCEPT ![w] = [@ EXCEPT !.pc = "mark"]]
  /\ obs' = NoObs
  /\ UNCHANGED <<tables, queues, o, hk, sm, mon, env, more>>

\* grant_id missing: select nylas_grant_id from support_inboxes.
ThreadJobResolveGrant(w) ==
  /\ wk[w].pc = "resolve_grant"
  /\ wk' = [wk EXCEPT ![w] =
       IF inbox_grant = NoGrant THEN WkCatch(@)
       ELSE [@ EXCEPT !.grant_id = inbox_grant, !.pc = "mark"]]
  /\ obs' = NoObs
  /\ UNCHANGED <<tables, queues, o, hk, sm, mon, env, more>>

\* markThreadProcessing (queued -> processing), then threads.find and
\* messages.list of the provider, either of which may throw.
ThreadJobMark(w) ==
  /\ wk[w].pc = "mark"
  /\ queued_threads' =
       UpdateRowsWhere(queued_threads, wk[w].thread_id, "queued",
                       LAMBDA r : [r EXCEPT !.status = "processing"])
  /\ LET msgs == ProviderMessages(wk[w].thread_id)
     IN  IF Len(msgs) = 0
           THEN /\ wk' = [wk EXCEPT ![w] = WkComplete(@, 0, TRUE)]
                /\ sm' = sm
           ELSE /\ wk' = [wk EXCEPT ![w] = [@ EXCEPT !.pc = "sync", !.i = 1]]
                /\ sm' = [sm EXCEPT ![w] = SmCall(msgs[1])]
  /\ obs' = NoObs
  /\ UNCHANGED <<threads, messages, cfg, stats, inbox_grant, queues, o, hk, mon,
                 env, more>>

\* The same step when threads.find or messages.list throws: the catch of
\* processThreadJob runs.
ThreadJobProviderThrows(w) ==
  /\ wk[w].pc = "mark"
  /\ budget.fails > 0
  /\ budget' = [budget EXCEPT !.fails = @ - 1]
  /\ queued_threads' =
       UpdateRowsWhere(queued_threads, wk[w].thread_id, "queued",
                       LAMBDA r : [r EXCEPT !.status = "processing"])
  /\ wk' = [wk EXCEPT ![w] = WkCatch(@)]
  /\ obs' = [op |-> "thread_attempt_failed", t |-> wk[w].thread_id,
             read_ct |-> wk[w].read_ct]
  /\ UNCHANGED <<threads, messages, cfg, stats, inbox_grant, queues, o, hk, sm,
                 mon, deploy, more>>

\* A worker that treats a thread the provider does not have as a failed
\* attempt.
ThreadJobNotFoundThrows(w) ==
  /\ wk[w].pc = "mark"
  /\ queued_threads' =
       UpdateRowsWhere(queued_threads, wk[w].thread_id, "queued",
                       LAMBDA r : [r EXCEPT !.status = "processing"])
  /\ wk' = [wk EXCEPT ![w] = WkCatch(@)]
  /\ obs' = [op |-> "thread_not_found", t |-> wk[w].thread_id, by |-> w]
  /\ UNCHANGED <<threads, messages, cfg, stats, inbox_grant, queues, o, hk, sm,
                 mon, env, more>>

\* markThreadProcessing, then threads.find answers without data (the thread
\* is gone at the provider): completeThread(.., 0, true).
ThreadJobNotFound(w) ==
  /\ wk[w].pc = "mark"
  /\ queued_threads' =
       UpdateRowsWhere(queued_threads, wk[w].thread_id, "queued",
                       LAMBDA r : [r EXCEPT !.status = "processing"])
  /\ wk' = [wk EXCEPT ![w] = WkComplete(@, 0, TRUE)]
  /\ obs' = [op |-> "thread_not_found", t |-> wk[w].thread_id, by |-> w]
  /\ UNCHANGED <<threads, messages, cfg, stats, inbox_grant, queues, o, hk, sm,
                 mon, env, more>>

\* markThreadProcessing, threads.find answers, then messages.list answers
\* with no message: completeThread(.., 0, true).
ThreadJobNoMessages(w) ==
  /\ wk[w].pc = "mark"
  /\ queued_threads' =
       UpdateRowsWhere(queued_threads, wk[w].thread_id, "queued",
                       LAMBDA r : [r EXCEPT !.status = "processing"])
  /\ wk' = [wk EXCEPT ![w] = WkComplete(@, 0, TRUE)]
  /\ obs' = [op |-> "thread_empty", t |-> wk[w].thread_id, by |-> w]
  /\ UNCHANGED <<threads, messages, cfg, stats, inbox_grant, queues, o, hk, sm,
                 mon, env, more>>

\* A message loop that counts no message.
ThreadJobSyncReturnUncounted(w) ==
  /\ wk[w].pc = "sync"
  /\ sm[w].pc \in {"ok", "err"}
  /\ LET msgs == ProviderMessages(wk[w].thread_id)
     IN  IF wk[w].i < Len(msgs)
           THEN /\ wk' = [wk EXCEPT ![w] = [@ EXCEPT !.i = @ + 1]]
                /\ sm' = [sm EXCEPT ![w] = SmCall(msgs[wk[w].i + 1])]
           ELSE /\ wk' = [wk EXCEPT ![w] = WkComplete(@, wk[w].synced, TRUE)]
                /\ sm' = [sm EXCEPT ![w] = SmIdle]
  /\ obs' = NoObs
  /\ UNCHANGED <<tables, queues, o, hk, mon, env, more>>

\* A message loop that a failing syncMessage aborts: the error reaches the
\* catch of processThreadJob.
ThreadJobSyncReturnAborts(w) ==
  /\ wk[w].pc = "sync"
  /\ sm[w].pc \in {"ok", "err"}
  /\ LET msgs == ProviderMessages(wk[w].thread_id)
         n == wk[w].synced + 1
     IN  IF sm[w].pc = "err"
           THEN /\ wk' = [wk EXCEPT ![w] = WkCatch(@)]
                /\ sm' = [sm EXCEPT ![w] = SmIdle]
           ELSE IF wk[w].i < Len(msgs)
             THEN /\ wk' = [wk EXCEPT ![w] = [@ EXCEPT !.i = @ + 1, !.synced = n]]
                  /\ sm' = [sm EXCEPT ![w] = SmCall(msgs[wk[w].i + 1])]
             ELSE /\ wk' = [wk EXCEPT ![w] = WkComplete(@, n, TRUE)]
                  /\ sm' = [sm EXCEPT ![w] = SmIdle]
  /\ obs' = NoObs
  /\ UNCHANGED <<tables, queues, o, hk, mon, env, more>>

\* The message loop: syncMessage returned or threw; count it and go on to
\* the next message, or to completeThread after the last one.
ThreadJobSyncReturn(w) ==
  /\ wk[w].pc = "sync"
  /\ sm[w].pc \in {"ok", "err"}
  /\ LET msgs == ProviderMessages(wk[w].thread_id)
         n == wk[w].synced + (IF sm[w].pc = "ok" THEN 1 ELSE 0)
     IN  IF wk[w].i < Len(msgs)
           THEN /\ wk' = [wk EXCEPT ![w] = [@ EXCEPT !.i = @ + 1, !.synced = n]]
                /\ sm' = [sm EXCEPT ![w] = SmCall(msgs[wk[w].i + 1])]
           ELSE /\ wk' = [wk EXCEPT ![w] = WkComplete(@, n, TRUE)]
                /\ sm' = [sm EXCEPT ![w] = SmIdle]
  /\ obs' = NoObs
  /\ UNCHANGED <<tables, queues, o, hk, mon, env, more>>

\* A completeThread whose UPDATE does not test the status of the row.
ThreadJobCompleteUpdateUnguarded(w) ==
  /\ wk[w].pc = "complete_update"
  /\ queued_threads' =
       [queued_threads EXCEPT ![wk[w].thread_id] =
          [i \in 1..Len(@) |->
             [@[i] EXCEPT !.status = IF wk[w].success THEN "completed" ELSE "failed",
                          !.messages_synced = wk[w].synced]]]
  /\ wk' = [wk EXCEPT ![w] = [@ EXCEPT !.pc = "complete_delete"]]
  /\ obs' = NoObs
  /\ UNCHANGED <<threads, messages, cfg, stats, inbox_grant, queues, o, hk, sm,
                 mon, env, more>>

\* completeThread: the UPDATE of the work row, guarded by status =
\* 'processing'.
ThreadJobCompleteUpdate(w) ==
  /\ wk[w].pc = "complete_update"
  /\ queued_threads' =
       UpdateRowsWhere(queued_threads, wk[w].thread_id, "processing",
                       LAMBDA r : [r EXCEPT
                          !.status = IF wk[w].success THEN "completed" ELSE "failed",
                          !.messages_synced = wk[w].synced])
  /\ wk' = [wk EXCEPT ![w] = [@ EXCEPT !.pc = "complete_delete"]]
  /\ obs' = NoObs
  /\ UNCHANGED <<threads, messages, cfg, stats, inbox_grant, queues, o, hk, sm,
                 mon, env, more>>

\* completeThread: deleteJob.
ThreadJobCompleteDelete(w) ==
  /\ wk[w].pc = "complete_delete"
  /\ thread_q' = DeleteMsg(thread_q, wk[w].msg_id)
  /\ wk' = [wk EXCEPT ![w] = WkIdle]
  /\ obs' = [op |-> "thread_done", t |-> wk[w].thread_id, by |-> w]
  /\ UNCHANGED <<tables, backfill_q, webhook_q, notif, nextId, o, hk, sm, mon, env, more>>

\* The worker process dies (the service is stopped or killed) in the middle
\* of a job and is started again.
ThreadWorkerCrash(w) ==
  /\ wk[w].pc # "poll"
  /\ budget.crashes > 0
  /\ budget' = [budget EXCEPT !.crashes = @ - 1]
  /\ wk' = [wk EXCEPT ![w] = WkIdle]
  /\ sm' = [sm EXCEPT ![w] = SmIdle]
  /\ obs' = NoObs
  /\ UNCHANGED <<tables, queues, o, hk, mon, deploy, more>>

\* Whether a worker is (still) processing the delivery of message id.
Held(id) == \E w \in DOMAIN wk : wk[w].pc # "poll" /\ wk[w].msg_id = id

\* pgmq: the visibility timeout (10 s) of a thread_sync_jobs message that no
\* worker deleted and no worker is processing any more ends.
ThreadJobRedelivery ==
  /\ \E m \in thread_q :
       /\ ~m.vis
       /\ ~Held(m.id)
       /\ thread_q' = (thread_q \ {m}) \cup {[m EXCEPT !.vis = TRUE]}
  /\ obs' = NoObs
  /\ UNCHANGED <<tables, backfill_q, webhook_q, notif, nextId, procs, env, more>>

\* pgmq: the visibility timeout ends while a worker is still processing the
\* message.
ThreadJobTimeout ==
  /\ budget.timeouts > 0
  /\ budget' = [budget EXCEPT !.timeouts = @ - 1]
  /\ \E m \in thread_q :
       /\ ~m.vis
       /\ Held(m.id)
       /\ thread_q' = (thread_q \ {m}) \cup {[m EXCEPT !.vis = TRUE]}
  /\ obs' = NoObs
  /\ UNCHANGED <<tables, backfill_q, webhook_q, notif, nextId, procs, deploy, more>>

\* processThreadJob below the retry limit with the grant of the job.
ThreadSyncJob(w) ==
  \/ ThreadJobRead(w)
  \/ ThreadJobMark(w)
  \/ ThreadJobSyncReturn(w)
  \/ ThreadJobCompleteUpdate(w)
  \/ ThreadJobCompleteDelete(w)

ThreadSyncProcessor(w) ==
  \/ ThreadSyncJob(w)
  \/ ThreadJobLimitDelete(w)
  \/ ThreadJobResolveGrant(w)
  \/ syncMessage(w)

\* --------------------------------------------------- the webhook consumer
\* hk: position and locals of QueueProcessor.runWorker / processMessage; a
\* read returns every visible message (up to the batch size), which are then
\* processed one after the other.

NoMsg == [id |-> 0]
HkIdle == [pc |-> "poll", batch |-> {}, cur |-> NoMsg]

\* A processMessage without the retry-limit check.
HkNextNoLimit(batch) ==
  IF batch = {} THEN HkIdle
  ELSE LET m == CHOOSE x \in batch : \A y \in batch : x.id <= y.id
       IN  [pc |-> "set_processing", batch |-> batch \ {m}, cur |-> m]

\* The for loop of runWorker takes the next message of the batch and
\* processMessage starts with its retry-limit check.
HkNext(batch) ==
  IF batch = {} THEN HkIdle
  ELSE LET m == CHOOSE x \in batch : \A y \in batch : x.id <= y.id
       IN  [pc |-> IF m.read_ct > WEBHOOK_MAX_RETRIES THEN "limit_update"
                   ELSE "set_processing",
            batch |-> batch \ {m}, cur |-> m]

WebhookRead ==
  /\ hk.pc = "poll"
  /\ Visible(webhook_q) # {}
  /\ LET got == {[m EXCEPT !.vis = FALSE, !.read_ct = m.read_ct + 1] :
                   m \in Visible(webhook_q)}
     IN  /\ webhook_q' = (webhook_q \ Visible(webhook_q)) \cup got
         /\ hk' = HkNext(got)
  /\ obs' = NoObs
  /\ UNCHANGED <<tables, backfill_q, thread_q, notif, nextId, o, wk, sm, mon, env, more>>

\* read_ct > 3: the notification row is set to error ...
WebhookLimitUpdate ==
  /\ hk.pc = "limit_update"
  /\ notif' = [notif EXCEPT ![hk.cur.nid] = "error"]
  /\ hk' = [hk EXCEPT !.pc = "limit_delete"]
  /\ obs' = [op |-> "notif_error", nid |-> hk.cur.nid,
             error_message |-> "Exceeded retry limit"]
  /\ UNCHANGED <<tables, backfill_q, thread_q, webhook_q, nextId, o, wk, sm, mon, env, more>>

\* ... and the message is deleted.
WebhookLimitDelete ==
  /\ hk.pc = "limit_delete"
  /\ webhook_q' = DeleteMsg(webhook_q, hk.cur.id)
  /\ hk' = HkNext(hk.batch)
  /\ obs' = [op |-> "webhook_retry_limit", nid |-> hk.cur.nid]
  /\ UNCHANGED <<tables, backfill_q, thread_q, notif, nextId, o, wk, sm, mon, env, more>>

\* Status 'processing', then NotificationHandler.handle dispatches on the
\* notification type; a message notification without a message id throws.
WebhookSetProcessing ==
  /\ hk.pc = "set_processing"
  /\ notif' = [notif EXCEPT ![hk.cur.nid] = "processing"]
  /\ IF hk.cur.type = "thread.replied"
       THEN /\ hk' = [hk EXCEPT !.pc = "sync_thread"]
            /\ sm' = sm
       ELSE IF hk.cur.target = ""
         THEN /\ hk' = [hk EXCEPT !.pc = "catch_update"]
              /\ sm' = sm
         ELSE /\ hk' = [hk EXCEPT !.pc = "handle"]
              /\ sm' = [sm EXCEPT ![Hook] = SmCall(hk.cur.target)]
  /\ obs' = NoObs
  /\ UNCHANGED <<tables, backfill_q, thread_q, webhook_q, nextId, o, wk, mon, env, more>>

\* What follows a successful handle: nothing in testing mode, else the
\* 'processed' update and the delete.
HkHandled(rec) ==
  IF deploy.testingMode THEN HkNext(rec.batch) ELSE [rec EXCEPT !.pc = "ack_update"]

\* NylasSync.syncThread: upsert on conflict nylas_thread_id.
WebhookSyncThread ==
  /\ hk.pc = "sync_thread"
  /\ threads' = [threads EXCEPT ![hk.cur.target] = IF @ = 0 THEN 1 ELSE @]
  /\ hk' = HkHandled(hk)
  /\ obs' = NoObs
  /\ UNCHANGED <<messages, queued_threads, cfg, stats, inbox_grant, queues,
                 o, wk, sm, mon, env, more>>

\* syncMessage returned (or threw) to processMessage.
WebhookHandleReturn ==
  /\ hk.pc = "handle"
  /\ sm[Hook].pc \in {"ok", "err"}
  /\ hk' = IF sm[Hook].pc = "ok" THEN HkHandled(hk) ELSE [hk EXCEPT !.pc = "catch_update"]
  /\ sm' = [sm EXCEPT ![Hook] = SmIdle]
  /\ obs' = [op |-> "webhook_handled", ok |-> sm[Hook].pc = "ok", nid |-> hk.cur.nid]
  /\ UNCHANGED <<tables, queues, o, wk, mon, env, more>>

WebhookAckUpdate ==
  /\ hk.pc = "ack_update"
  /\ notif' = [notif EXCEPT ![hk.cur.nid] = "processed"]
  /\ hk' = [hk EXCEPT !.pc = "ack_delete"]
  /\ obs' = NoObs
  /\ UNCHANGED <<tables, backfill_q, thread_q, webhook_q, nextId, o, wk, sm, mon, env, more>>

WebhookAckDelete ==
  /\ hk.pc = "ack_delete"
  /\ webhook_q' = DeleteMsg(webhook_q, hk.cur.id)
  /\ hk' = HkNext(hk.batch)
  /\ obs' = NoObs
  /\ UNCHANGED <<tables, backfill_q, thread_q, notif, nextId, o, wk, sm, mon, env, more>>

\* The catch of processMessage: status 'error', the message stays queued.
WebhookCatchUpdate ==
  /\ hk.pc = "catch_update"
  /\ notif' = [notif EXCEPT ![hk.cur.nid] = "error"]
  /\ hk' = HkNext(hk.batch)
  /\ obs' = [op |-> "notif_error", nid |-> hk.cur.nid,
             error_message |-> "error.message"]
  /\ UNCHANGED <<tables, backfill_q, thread_q, webhook_q, nextId, o, wk, sm, mon, env, more>>

\* pgmq: the visibility timeout of a read webhook message ends.
WebhookTimeout ==
  /\ budget.timeouts > 0
  /\ budget' = [budget EXCEPT !.timeouts = @ - 1]
  /\ \E m \in webhook_q :
       /\ ~m.vis
       /\ webhook_q' = (webhook_q \ {m}) \cup {[m EXCEPT !.vis = TRUE]}
  /\ obs' = NoObs
  /\ UNCHANGED <<tables, backfill_q, thread_q, notif, nextId, procs, deploy, more>>

\* pgmq: the visibility timeout (60 s) of the messages of a batch ends after
\* the consumer went through the batch without deleting them.
WebhookRedelivery ==
  /\ hk.pc = "poll"
  /\ \E m \in webhook_q :
       /\ ~m.vis
       /\ webhook_q' = (webhook_q \ {m}) \cup {[m EXCEPT !.vis = TRUE]}
  /\ obs' = NoObs
  /\ UNCHANGED <<tables, backfill_q, thread_q, notif, nextId, procs, env, more>>

\* processMessage of a message notification below the retry limit.
WebhookMessageJob ==
  \/ WebhookRead
  \/ WebhookSetProcessing
  \/ WebhookHandleReturn
  \/ WebhookAckUpdate
  \/ WebhookAckDelete
  \/ WebhookCatchUpdate
  \/ syncMessage(Hook)

QueueProcessor ==
  \/ WebhookMessageJob
  \/ WebhookLimitUpdate
  \/ WebhookLimitDelete
  \/ WebhookSyncThread

\* ------------------------------------------------------- initial values

NoProgress ==
  [last_page_token |-> NoToken, threads_queued |-> 0, current_page |-> 0,
   error |-> FALSE]

CfgIdle ==
  [backfill_status |-> "idle", started_at |-> FALSE, completed_at |-> FALSE,
   progress |-> NoProgress]

NoStats ==
  [exists |-> FALSE, threads_total |-> 0, threads_queued |-> 0,
   threads_processing |-> 0, threads_completed |-> 0, threads_failed |-> 0,
   messages_synced |-> 0, sync_completed_at |-> FALSE]

\* initialize_sync_stats: insert, or on conflict reset every counter.
initialize_sync_stats(total) ==
  [exists |-> TRUE, threads_total |-> total, threads_queued |-> 0,
   threads_processing |-> 0, threads_completed |-> 0, threads_failed |-> 0,
   messages_synced |-> 0, sync_completed_at |-> FALSE]

\* ------------------------------------------------------------ date ranges
\* A job's start_date and end_date are ISO dates, <<year, month, day>>.
\* new Date(iso).getTime() / 1000 is seconds since 1970-01-01T00:00:00Z;
\* toISOString() is the way back.  Both go through the proleptic Gregorian
\* calendar.
SECONDS_PER_DAY == 86400

MAX_RANGE_DAYS == 365

NoDate == <<>>

DefaultStart == <<2023, 7, 1>>

DefaultEnd == <<2024, 1, 1>>

days_from_civil(date) ==
  LET y   == IF date[2] <= 2 THEN date[1] - 1 ELSE date[1]
      era == y \div 400
      yoe == y - era * 400
      mp  == IF date[2] > 2 THEN date[2] - 3 ELSE date[2] + 9
      doy == (153 * mp + 2) \div 5 + date[3] - 1
      doe == yoe * 365 + yoe \div 4 - yoe \div 100 + doy
  IN  era * 146097 + doe - 719468

civil_from_days(n) ==
  LET z   == n + 719468
      era == z \div 146097
      doe == z - era * 146097
      yoe == (doe - doe \div 1460 + doe \div 36524 - doe \div 146096) \div 365
      doy == doe - (365 * yoe + yoe \div 4 - yoe \div 100)
      mp  == (5 * doy + 2) \div 153
      d   == doy - (153 * mp + 2) \div 5 + 1
      m   == IF mp < 10 THEN mp + 3 ELSE mp - 9
      y   == yoe + era * 400
  IN  << IF m <= 2 THEN y + 1 ELSE y, m, d >>

\* new Date(iso).getTime(), in seconds.
getTime(date) == days_from_civil(date) * SECONDS_PER_DAY

\* new Date(seconds).toISOString(), the date part.
toISOString(t) == civil_from_days(t \div SECONDS_PER_DAY)

\* Math.ceil((endDate.getTime() - startDate.getTime()) / one day)
daysDifference(start_date, end_date) ==
  LET diff == getTime(end_date) - getTime(start_date)
  IN  IF diff >= 0 THEN (diff + SECONDS_PER_DAY - 1) \div SECONDS_PER_DAY
      ELSE 0 - ((0 - diff) \div SECONDS_PER_DAY)

\* adjustedStartDate.setDate(adjustedStartDate.getDate() - 365)
setDateBack(date, n) == toISOString(getTime(date) - n * SECONDS_PER_DAY)

EnforceMaxRangeOff(start_date, end_date) ==
  [start_date |-> start_date, end_date |-> end_date]

EnforceMaxRange364(start_date, end_date) ==
  [start_date |-> IF daysDifference(start_date, end_date) > MAX_RANGE_DAYS
                  THEN setDateBack(end_date, MAX_RANGE_DAYS - 1)
                  ELSE start_date,
   end_date   |-> end_date]

\* processBackfillJob, "Enforce max 1 year date range": the dates the job is
\* processed with.
EnforceMaxRange(start_date, end_date) ==
  [start_date |-> IF daysDifference(start_date, end_date) > MAX_RANGE_DAYS
                  THEN setDateBack(end_date, MAX_RANGE_DAYS)
                  ELSE start_date,
   end_date   |-> end_date]

OIdle ==
  [pc |-> "start", msg_id |-> 0, read_ct |-> 0, grant_id |-> NoGrant,
   start_date |-> NoDate, end_date |-> NoDate,
   threadsQueued |-> 0, currentPage |-> 0, pageToken |-> NoToken,
   page |-> <<>>, nextCursor |-> NoToken, idx |-> 0, cache |-> {},
   todo |-> <<>>, ret |-> ""]

emptyStats ==
  [total |-> 0, queued |-> 0, processing |-> 0, completed |-> 0, failed |-> 0,
   messages_synced |-> 0]

MonIdle == [pc |-> "idle", snap |-> emptyStats]

BackfillJob(id, grant) ==
  [id |-> id, read_ct |-> 0, vis |-> TRUE, grant_id |-> grant,
   start_date |-> DefaultStart, end_date |-> DefaultEnd]

ThreadJob(id, t, grant) ==
  [id |-> id, read_ct |-> 0, vis |-> TRUE, thread_id |-> t, grant_id |-> grant]

Notification(id, type, target) ==
  [id |-> id, read_ct |-> 0, vis |-> TRUE, nid |-> id, type |-> type,
   target |-> target]

PublishedRow(grant) == [NewRow(grant) EXCEPT !.pgmq_queued_at = TRUE]


\* ------------------------------------------------ the backfill orchestrator
\* o: position and locals of BackfillProcessor.start / runWorker /
\* processBackfillJob.  deploy.variant tells which of the two
\* backfill-processor.ts variants runs: "bulk" inserts the work rows while it
\* pages and publishes them after the transition, "immediate" publishes each
\* row when it is inserted and sweeps unpublished rows at start.

Immediate == deploy.variant = "immediate"

OPoll == [OIdle EXCEPT !.pc = "poll"]

ThreadOrder == <<"T1", "T2">>

\* The rows of status 'queued' a select on queued_threads returns (with
\* orphansOnly, those whose pgmq_queued_at is null), as the thread_id and
\* grant_id of each.
RECURSIVE SelectQueued(_, _, _)
SelectQueued(tbl, orphansOnly, k) ==
  IF k > Len(ThreadOrder) THEN <<>>
  ELSE LET t == ThreadOrder[k]
           Test(r) == r.status = "queued" /\ (orphansOnly => ~r.pgmq_queued_at)
           hit == SelectSeq(tbl[t], Test)
       IN  [i \in 1..Len(hit) |-> [thread_id |-> t, grant_id |-> hit[i].grant_id]]
           \o SelectQueued(tbl, orphansOnly, k + 1)

\* rpc queue_thread_sync: pgmq.send of one thread job.
queue_thread_sync(q, id, t, grant) == q \cup {ThreadJob(id, t, grant)}

\* A sweep (recoverOrphanedThreads at start, checkForExistingQueuedThreads at
\* the start of a job) found rows: publish them, then go on at ret.
OSweep(rec, rows, ret) ==
  IF rows = <<>> THEN [rec EXCEPT !.pc = ret]
  ELSE [rec EXCEPT !.pc = "publish", !.todo = rows, !.ret = ret]

\* The loop over the threads of a page goes on to the next thread, or the
\* page is done: currentPage++, pageToken = nextCursor, and the checkpoint is
\* saved next.  (rpc update_backfill_orchestration_progress comes in between:
\* it writes neither the checkpoint nor a status.)
OAdvance(rec) ==
  IF rec.idx < Len(rec.page)
    THEN [rec EXCEPT !.idx = @ + 1, !.pc = "check_exists"]
    ELSE [rec EXCEPT !.currentPage = @ + 1, !.pageToken = rec.nextCursor,
                     !.pc = "checkpoint"]

\* queueThreadWithDeduplication returned true for thread t.
OCounted(rec, t) ==
  OAdvance([rec EXCEPT !.cache = @ \cup {t}, !.threadsQueued = @ + 1])

\* After the page loop: nothing queued completes the backfill at once, else
\* the transition to thread_sync follows.
OAfterLoop(rec) ==
  [rec EXCEPT !.pc = IF rec.threadsQueued = 0 THEN "complete_cfg" ELSE "transition"]

\* start(): the bulk variant goes straight to the poll loop; the immediate
\* variant first selects the orphaned rows (recoverOrphanedThreads).
O_Start ==
  /\ o.pc = "start"
  /\ o' = IF Immediate
            THEN OSweep(o, SelectQueued(queued_threads, TRUE, 1), "poll")
            ELSE OPoll
  /\ obs' = NoObs
  /\ UNCHANGED <<tables, queues, wk, hk, sm, mon, env, more>>

\* queueThreadToPGMQ, first half: queueThread of the head of o.todo.
O_QueueToPGMQ ==
  /\ o.pc = "publish"
  /\ nextId <= MaxMsgId
  /\ LET r == Head(o.todo)
     IN  /\ thread_q' = queue_thread_sync(thread_q, nextId, r.thread_id, r.grant_id)
         /\ obs' = [op |-> "publish", t |-> r.thread_id, grant |-> r.grant_id,
                    id |-> nextId, from |-> o.ret]
  /\ nextId' = nextId + 1
  /\ o' = [o EXCEPT !.pc = "stamp"]
  /\ UNCHANGED <<tables, backfill_q, webhook_q, notif, wk, hk, sm, mon, env, more>>

\* queueThread where rpc queue_thread_sync answers with an error: the answer
\* of the rpc is not looked at, queueThread returns, and queueThreadToPGMQ
\* goes on to stamp the row.
O_QueueToPGMQFails ==
  /\ o.pc = "publish"
  /\ budget.fails > 0
  /\ budget' = [budget EXCEPT !.fails = @ - 1]
  /\ obs' = [op |-> "publish_error", t |-> Head(o.todo).thread_id, from |-> o.ret]
  /\ o' = [o EXCEPT !.pc = "stamp"]
  /\ UNCHANGED <<tables, queues, wk, hk, sm, mon, deploy, more>>

\* queueThread where the rpc call rejects: queueThread and queueThreadToPGMQ
\* rethrow.  The loop over the threads of a page catches the error of
\* queueThreadWithDeduplication and goes on with the next thread, which is
\* neither counted nor cached; recoverOrphanedThreads (Promise.allSettled)
\* and checkForExistingQueuedThreads (try/catch in the loop) go on with the
\* next row.
O_QueueToPGMQThrows ==
  /\ o.pc = "publish"
  /\ budget.fails > 0
  /\ budget' = [budget EXCEPT !.fails = @ - 1]
  /\ obs' = [op |-> "publish_error", t |-> Head(o.todo).thread_id, from |-> o.ret]
  /\ o' = IF o.ret = "page" THEN OAdvance([o EXCEPT !.todo = <<>>, !.ret = ""])
          ELSE IF Tail(o.todo) # <<>> THEN [o EXCEPT !.todo = Tail(@)]
          ELSE [o EXCEPT !.pc = o.ret, !.todo = <<>>, !.ret = ""]
  /\ UNCHANGED <<tables, queues, wk, hk, sm, mon, deploy, more>>

\* queueThreadToPGMQ, second half: UPDATE queued_threads SET pgmq_queued_at
\* of the row; then the next row of the sweep, or the caller goes on.
O_Stamp ==
  /\ o.pc = "stamp"
  /\ LET r == Head(o.todo)
         rest == Tail(o.todo)
     IN  /\ queued_threads' =
              [queued_threads EXCEPT ![r.thread_id] =
                 [i \in 1..Len(@) |-> [@[i] EXCEPT !.pgmq_queued_at = TRUE]]]
         /\ o' = IF rest # <<>> THEN [o EXCEPT !.pc = "publish", !.todo = rest]
                 ELSE IF o.ret = "page"
                   THEN OCounted([o EXCEPT !.todo = <<>>, !.ret = ""], r.thread_id)
                   ELSE [o EXCEPT !.pc = o.ret, !.todo = <<>>, !.ret = ""]
  /\ obs' = NoObs
  /\ UNCHANGED <<threads, messages, cfg, stats, inbox_grant, queues, wk, hk, sm,
                 mon, env, more>>

\* queueThreadToPGMQ where the UPDATE of pgmq_queued_at answers with an
\* error: the error is logged and not thrown, the row stays unstamped, and
\* the caller goes on as after a stamp.
O_StampFails ==
  /\ o.pc = "stamp"
  /\ budget.fails > 0
  /\ budget' = [budget EXCEPT !.fails = @ - 1]
  /\ LET r == Head(o.todo)
         rest == Tail(o.todo)
     IN  o' = IF rest # <<>> THEN [o EXCEPT !.pc = "publish", !.todo = rest]
              ELSE IF o.ret = "page"
                THEN OCounted([o EXCEPT !.todo = <<>>, !.ret = ""], r.thread_id)
                ELSE [o EXCEPT !.pc = o.ret, !.todo = <<>>, !.ret = ""]
  /\ obs' = [op |-> "stamp_error", t |-> Head(o.todo).thread_id, from |-> o.ret]
  /\ UNCHANGED <<tables, queues, wk, hk, sm, mon, deploy, more>>

\* recoverOrphanedThreads with its loop over batches: one select of the
\* orphaned rows limited to the batch size.  No row ends the recovery; a
\* batch shorter than the limit is published and ends it (o.ret = "poll"); a
\* full batch is published and the select repeated (o.ret = "start").
\* O_Start is the case of fewer orphaned rows than the limit.
O_RecoverBatch ==
  /\ o.pc = "start"
  /\ Immediate
  /\ LET all == SelectQueued(queued_threads, TRUE, 1)
         orphanedThreads == IF Len(all) > MaxBatch THEN SubSeq(all, 1, MaxBatch)
                            ELSE all
     IN  o' = OSweep(o, orphanedThreads,
                     IF Len(orphanedThreads) < MaxBatch THEN "poll" ELSE "start")
  /\ obs' = NoObs
  /\ UNCHANGED <<tables, queues, wk, hk, sm, mon, env, more>>

\* runWorker: pgmq read of one backfill job (visibility 30 s), then the
\* retry-limit check of processBackfillJob; below the limit the cache is
\* cleared and the job starts.
O_Read ==
  /\ o.pc = "poll"
  /\ \E m \in Visible(backfill_q) :
       /\ backfill_q' = ReadMsg(backfill_q, m)
       /\ o' = [OIdle EXCEPT
                  !.msg_id = m.id, !.read_ct = m.read_ct + 1,
                  !.grant_id = m.grant_id,
                  !.start_date =
                     EnforceMaxRange(m.start_date, m.end_date).start_date,
                  !.end_date =
                     EnforceMaxRange(m.start_date, m.end_date).end_date,
                  !.pc = IF m.read_ct + 1 > BACKFILL_MAX_RETRIES THEN "limit_fail"
                         ELSE IF Immediate THEN "existing"
                         ELSE "set_backfill"]
  /\ obs' = NoObs
  /\ UNCHANGED <<tables, thread_q, webhook_q, notif, nextId, wk, hk, sm, mon, env, more>>

\* The retry-limit branch: updateBackfillStatus('failed', {error}) keeps the
\* checkpoint and adds the error ...
O_LimitFail ==
  /\ o.pc = "limit_fail"
  /\ cfg' = [cfg EXCEPT !.backfill_status = "failed", !.progress.error = TRUE]
  /\ o' = [o EXCEPT !.pc = "limit_delete"]
  /\ obs' = [op |-> "backfill_failed", read_ct |-> o.read_ct]
  /\ UNCHANGED <<threads, messages, queued_threads, stats, inbox_grant, queues,
                 wk, hk, sm, mon, env, more>>

\* ... and deleteJob.
O_LimitDelete ==
  /\ o.pc = "limit_delete"
  /\ backfill_q' = DeleteMsg(backfill_q, o.msg_id)
  /\ o' = OPoll
  /\ obs' = [op |-> "backfill_dropped", id |-> o.msg_id, read_ct |-> o.read_ct]
  /\ UNCHANGED <<tables, thread_q, webhook_q, notif, nextId, wk, hk, sm, mon, env, more>>

\* checkForExistingQueuedThreads (immediate variant): select the rows of the
\* configuration that are queued and unpublished.
O_ExistingSelect ==
  /\ o.pc = "existing"
  /\ o' = OSweep(o, SelectQueued(queued_threads, TRUE, 1), "set_backfill")
  /\ obs' = NoObs
  /\ UNCHANGED <<tables, queues, wk, hk, sm, mon, env, more>>

\* updateBackfillStatus('backfill', {started_at}).
O_SetBackfill ==
  /\ o.pc = "set_backfill"
  /\ cfg' = [cfg EXCEPT !.backfill_status = "backfill", !.started_at = TRUE]
  /\ o' = [o EXCEPT !.pc = "init_stats"]
  /\ obs' = NoObs
  /\ UNCHANGED <<threads, messages, queued_threads, stats, inbox_grant, queues,
                 wk, hk, sm, mon, env, more>>

\* initializeSyncStats(config_id, 0).
O_InitStats ==
  /\ o.pc = "init_stats"
  /\ stats' = initialize_sync_stats(0)
  /\ o' = [o EXCEPT !.pc = "get_checkpoint"]
  /\ obs' = NoObs
  /\ UNCHANGED <<threads, messages, queued_threads, cfg, inbox_grant, queues,
                 wk, hk, sm, mon, env, more>>

\* A resume that takes the counter and the token of the checkpoint and
\* starts its page count at 0.
O_GetCheckpointPageZero ==
  /\ o.pc = "get_checkpoint"
  /\ o' = [o EXCEPT !.threadsQueued = cfg.progress.threads_queued,
                    !.currentPage = 0,
                    !.pageToken = cfg.progress.last_page_token,
                    !.pc = "list"]
  /\ obs' = [op |-> "resume", threads_queued |-> cfg.progress.threads_queued,
             token |-> cfg.progress.last_page_token, read_ct |-> o.read_ct]
  /\ UNCHANGED <<tables, queues, wk, hk, sm, mon, env, more>>

\* getBackfillCheckpoint and the resume of threadsQueued, currentPage and
\* pageToken from it.
O_GetCheckpoint ==
  /\ o.pc = "get_checkpoint"
  /\ o' = [o EXCEPT !.threadsQueued = cfg.progress.threads_queued,
                    !.currentPage = cfg.progress.current_page,
                    !.pageToken = cfg.progress.last_page_token,
                    !.pc = "list"]
  /\ obs' = [op |-> "resume", threads_queued |-> cfg.progress.threads_queued,
             token |-> cfg.progress.last_page_token, read_ct |-> o.read_ct]
  /\ UNCHANGED <<tables, queues, wk, hk, sm, mon, env, more>>

\* threads.list of one page; an empty page leaves the loop.
O_List ==
  /\ o.pc = "list"
  /\ LET resp == ListPage(o.pageToken)
     IN  o' = IF resp.data = <<>> THEN OAfterLoop(o)
              ELSE [o EXCEPT !.page = resp.data, !.nextCursor = resp.nextCursor,
                             !.idx = 1, !.pc = "check_exists"]
  /\ obs' = [op |-> "list", pageToken |-> o.pageToken,
             latestMessageAfter |-> getTime(o.start_date),
             latestMessageBefore |-> getTime(o.end_date)]
  /\ UNCHANGED <<tables, queues, wk, hk, sm, mon, env, more>>

\* threads.list throws: the catch of processBackfillJob runs.
O_ListThrows ==
  /\ o.pc = "list"
  /\ budget.fails > 0
  /\ budget' = [budget EXCEPT !.fails = @ - 1]
  /\ o' = [o EXCEPT !.pc = "catch"]
  /\ obs' = NoObs
  /\ UNCHANGED <<tables, queues, wk, hk, sm, mon, deploy, more>>

\* queueThreadWithDeduplication: the cache, then checkThreadExists (a select
\* on support_email_threads).
O_CheckExists ==
  /\ o.pc = "check_exists"
  /\ LET t == o.page[o.idx]
     IN  o' = IF t \in o.cache THEN OAdvance(o)
              ELSE IF threads[t] > 0 THEN OAdvance([o EXCEPT !.cache = @ \cup {t}])
              ELSE [o EXCEPT !.pc = "insert"]
  /\ obs' = NoObs
  /\ UNCHANGED <<tables, queues, wk, hk, sm, mon, env, more>>

\* insertQueuedThread: rpc insert_queued_thread_idempotent with the grant of
\* the job.  The bulk variant counts the thread and goes on; the immediate
\* variant publishes it first.
O_Insert ==
  /\ o.pc = "insert"
  /\ LET t == o.page[o.idx]
     IN  /\ queued_threads' = insert_queued_thread_idempotent(queued_threads, t, o.grant_id)
         /\ o' = IF Immediate
                   THEN [o EXCEPT !.pc = "publish", !.ret = "page",
                           !.todo = <<[thread_id |-> t, grant_id |-> o.grant_id]>>]
                   ELSE OCounted(o, t)
         /\ obs' = [op |-> "row_insert", t |-> t, rows_before |-> Len(queued_threads[t]),
                    status_before |-> IF queued_threads[t] = <<>> THEN "none"
                                      ELSE queued_threads[t][1].status,
                    grant_before |-> IF queued_threads[t] = <<>> THEN NoGrant
                                     ELSE queued_threads[t][1].grant_id,
                    grant |-> o.grant_id]
  /\ UNCHANGED <<threads, messages, cfg, stats, inbox_grant, queues, wk, hk, sm,
                 mon, env, more>>

\* A checkpoint save after which the page loop ends although a page token
\* is left.
O_SaveCheckpointLoopEnds ==
  /\ o.pc = "checkpoint"
  /\ cfg' = [cfg EXCEPT !.progress =
               [last_page_token |-> o.pageToken, threads_queued |-> o.threadsQueued,
                current_page |-> o.currentPage, error |-> FALSE]]
  /\ o' = OAfterLoop(o)
  /\ obs' = [op |-> "checkpoint", threads_queued |-> o.threadsQueued,
             read_ct |-> o.read_ct]
  /\ UNCHANGED <<threads, messages, queued_threads, stats, inbox_grant, queues,
                 wk, hk, sm, mon, env, more>>

\* saveBackfillCheckpoint overwrites the progress blob; the loop goes on
\* while there is a page token.  (The loop also tests isRunning, which is
\* true whenever this runs: stop() is called by shutdown only, and shutdown
\* ends the process in the same turn of the event loop.)
O_SaveCheckpoint ==
  /\ o.pc = "checkpoint"
  /\ cfg' = [cfg EXCEPT !.progress =
               [last_page_token |-> o.pageToken, threads_queued |-> o.threadsQueued,
                current_page |-> o.currentPage, error |-> FALSE]]
  /\ o' = IF o.pageToken # NoToken THEN [o EXCEPT !.pc = "list"] ELSE OAfterLoop(o)
  /\ obs' = [op |-> "checkpoint", threads_queued |-> o.threadsQueued,
             read_ct |-> o.read_ct]
  /\ UNCHANGED <<threads, messages, queued_threads, stats, inbox_grant, queues,
                 wk, hk, sm, mon, env, more>>

\* completeBackfill (threadsQueued === 0): updateBackfillStatus('completed',
\* {completed_at}) ...
O_CompleteCfg ==
  /\ o.pc = "complete_cfg"
  /\ cfg' = [cfg EXCEPT !.backfill_status = "completed", !.completed_at = TRUE]
  /\ o' = [o EXCEPT !.pc = "complete_ack"]
  /\ obs' = [op |-> "completed", by |-> "orchestrator"]
  /\ UNCHANGED <<threads, messages, queued_threads, stats, inbox_grant, queues,
                 wk, hk, sm, mon, env, more>>

\* The job leaves the queue (pgmq delete by msg_id).
acknowledge_backfill_job(q, id) == DeleteMsg(q, id)

\* ... and rpc acknowledge_backfill_job.
O_CompleteAck ==
  /\ o.pc = "complete_ack"
  /\ backfill_q' = acknowledge_backfill_job(backfill_q, o.msg_id)
  /\ o' = OPoll
  /\ obs' = NoObs
  /\ UNCHANGED <<tables, thread_q, webhook_q, notif, nextId, wk, hk, sm, mon, env, more>>

\* The configuration enters the thread-sync phase.
transition_to_thread_sync(c, threadsQueued) == [c EXCEPT !.backfill_status = "thread_sync"]

\* rpc transition_to_thread_sync with threadsQueued.
O_Transition ==
  /\ o.pc = "transition"
  /\ cfg' = transition_to_thread_sync(cfg, o.threadsQueued)
  /\ o' = [o EXCEPT !.pc = IF Immediate THEN "clear_checkpoint" ELSE "bulk_select"]
  /\ obs' = [op |-> "transition", threads_queued |-> o.threadsQueued,
             read_ct |-> o.read_ct]
  /\ UNCHANGED <<threads, messages, queued_threads, stats, inbox_grant, queues,
                 wk, hk, sm, mon, env, more>>

\* bulkQueueThreads: select every row of the configuration in status
\* 'queued'.
O_BulkSelect ==
  /\ o.pc = "bulk_select"
  /\ LET rows == SelectQueued(queued_threads, FALSE, 1)
     IN  o' = IF rows = <<>> THEN [o EXCEPT !.pc = "clear_checkpoint"]
              ELSE [o EXCEPT !.pc = "bulk_publish", !.todo = rows]
  /\ obs' = NoObs
  /\ UNCHANGED <<tables, queues, wk, hk, sm, mon, env, more>>

\* The select of bulkQueueThreads returns an error: it is thrown to the
\* catch of processBackfillJob.
O_BulkSelectFails ==
  /\ o.pc = "bulk_select"
  /\ budget.fails > 0
  /\ budget' = [budget EXCEPT !.fails = @ - 1]
  /\ o' = [o EXCEPT !.pc = "catch"]
  /\ obs' = NoObs
  /\ UNCHANGED <<tables, queues, wk, hk, sm, mon, deploy, more>>

\* bulkQueueThreads: queueThread of the next selected row, with the grant_id
\* the row holds.
O_BulkPublish ==
  /\ o.pc = "bulk_publish"
  /\ nextId <= MaxMsgId
  /\ LET r == Head(o.todo)
         rest == Tail(o.todo)
     IN  /\ thread_q' = queue_thread_sync(thread_q, nextId, r.thread_id, r.grant_id)
         /\ obs' = [op |-> "publish", t |-> r.thread_id, grant |-> r.grant_id,
                    id |-> nextId, from |-> "bulk"]
         /\ o' = IF rest # <<>> THEN [o EXCEPT !.todo = rest]
                 ELSE [o EXCEPT !.todo = <<>>, !.pc = "clear_checkpoint"]
  /\ nextId' = nextId + 1
  /\ UNCHANGED <<tables, backfill_q, webhook_q, notif, wk, hk, sm, mon, env, more>>

\* bulkQueueThreads where queueThread of the next selected row fails (the rpc
\* answers with an error, which is not looked at, or it rejects, which the
\* catch inside the loop logs): the loop continues with the other rows.
O_BulkPublishFails ==
  /\ o.pc = "bulk_publish"
  /\ budget.fails > 0
  /\ budget' = [budget EXCEPT !.fails = @ - 1]
  /\ obs' = [op |-> "publish_error", t |-> Head(o.todo).thread_id, from |-> "bulk"]
  /\ o' = IF Tail(o.todo) # <<>> THEN [o EXCEPT !.todo = Tail(@)]
          ELSE [o EXCEPT !.todo = <<>>, !.pc = "clear_checkpoint"]
  /\ UNCHANGED <<tables, queues, wk, hk, sm, mon, deploy, more>>

\* clearBackfillCheckpoint: the progress blob becomes {threads_queued: 0,
\* current_page: 0}.
O_ClearCheckpoint ==
  /\ o.pc = "clear_checkpoint"
  /\ cfg' = [cfg EXCEPT !.progress = NoProgress]
  /\ o' = [o EXCEPT !.pc = "delete"]
  /\ obs' = NoObs
  /\ UNCHANGED <<threads, messages, queued_threads, stats, inbox_grant, queues,
                 wk, hk, sm, mon, env, more>>

\* deleteJob: the orchestration job is done.
O_Delete ==
  /\ o.pc = "delete"
  /\ backfill_q' = DeleteMsg(backfill_q, o.msg_id)
  /\ o' = OPoll
  /\ obs' = [op |-> "backfill_done", read_ct |-> o.read_ct]
  /\ UNCHANGED <<tables, thread_q, webhook_q, notif, nextId, wk, hk, sm, mon, env, more>>

\* A catch that writes the error as the whole progress blob.
O_CatchOverwrite ==
  /\ o.pc = "catch"
  /\ cfg' = [cfg EXCEPT !.backfill_status = "failed",
                        !.progress = [NoProgress EXCEPT !.error = TRUE]]
  /\ o' = OPoll
  /\ obs' = [op |-> "backfill_failed", read_ct |-> o.read_ct]
  /\ UNCHANGED <<threads, messages, queued_threads, stats, inbox_grant, queues,
                 wk, hk, sm, mon, env, more>>

\* The catch of processBackfillJob: updateBackfillStatus('failed', {error})
\* merges the error into the progress blob; the job stays on the queue.
O_Catch ==
  /\ o.pc = "catch"
  /\ cfg' = [cfg EXCEPT !.backfill_status = "failed", !.progress.error = TRUE]
  /\ o' = OPoll
  /\ obs' = [op |-> "backfill_failed", read_ct |-> o.read_ct]
  /\ UNCHANGED <<threads, messages, queued_threads, stats, inbox_grant, queues,
                 wk, hk, sm, mon, env, more>>

\* The positions of a job at which work rows were inserted and the publish
\* (bulk pass, or queueThreadToPGMQ of the row just inserted) has not begun.
BeforePublish ==
  IF Immediate THEN {"publish"}
  ELSE {"check_exists", "insert", "checkpoint", "list", "transition", "bulk_select"}

\* The orchestrator process dies at one of the positions `at` of a job and
\* is started again: its locals and its cache are lost.
O_Crash(at) ==
  /\ o.pc \in at
  /\ o.msg_id # 0
  /\ budget.crashes > 0
  /\ budget' = [budget EXCEPT !.crashes = @ - 1]
  /\ o' = OIdle
  /\ obs' = [op |-> "crash", at |-> o.pc,
             orphans |-> {r.thread_id : r \in RangeOf(SelectQueued(queued_threads, TRUE, 1))}]
  /\ UNCHANGED <<tables, queues, wk, hk, sm, mon, deploy, more>>

\* A backfill queue on which a job that was read is never shown again.
BackfillJobNeverRedelivered ==
  /\ FALSE
  /\ UNCHANGED vars

\* pgmq: the visibility timeout (30 s) of a backfill job that was read and
\* not deleted ends.  With the single orchestrator, which reads the queue
\* only between two jobs, a timeout counts once the orchestrator is back at
\* its poll.
BackfillJobRedelivery ==
  /\ o.pc = "poll"
  /\ \E m \in backfill_q :
       /\ ~m.vis
       /\ backfill_q' = (backfill_q \ {m}) \cup {[m EXCEPT !.vis = TRUE]}
  /\ obs' = NoObs
  /\ UNCHANGED <<tables, thread_q, webhook_q, notif, nextId, procs, env, more>>

\* A job that queues at least one thread.
BackfillRun ==
  \/ O_Start
  \/ O_QueueToPGMQ
  \/ O_Stamp
  \/ O_Read
  \/ O_ExistingSelect
  \/ O_SetBackfill
  \/ O_InitStats
  \/ O_GetCheckpoint
  \/ O_List
  \/ O_CheckExists
  \/ O_Insert
  \/ O_SaveCheckpoint
  \/ O_Transition
  \/ O_BulkSelect
  \/ O_BulkPublish
  \/ O_ClearCheckpoint
  \/ O_Delete

BackfillProcessor ==
  \/ BackfillRun
  \/ O_CompleteCfg
  \/ O_CompleteAck

\* --------------------------------------------------- the completion monitor
\* mon: position of CompletionMonitor.runWorker and the ThreadStats it read.

\* The statistics of the work rows of the configuration: the number of rows,
\* the number in each status, and the sum of messages_synced.
get_backfill_stats(tbl) ==
  [total |-> Cardinality(AllRows(tbl)),
   queued |-> Cardinality(RowsIn(tbl, "queued")),
   processing |-> Cardinality(RowsIn(tbl, "processing")),
   completed |-> Cardinality(RowsIn(tbl, "completed")),
   failed |-> Cardinality(RowsIn(tbl, "failed")),
   messages_synced |-> SumSynced(tbl, AllRows(tbl))]

\* updateProgressStats: the UPDATE of the stats row from a ThreadStats.
updateProgressStats(row, s) ==
  IF ~row.exists THEN row
  ELSE [row EXCEPT !.threads_total = s.total, !.threads_queued = s.queued,
                   !.threads_processing = s.processing,
                   !.threads_completed = s.completed,
                   !.threads_failed = s.failed,
                   !.messages_synced = s.messages_synced]

\* The completion test of monitorConfig on a ThreadStats.
IsComplete(s) ==
  /\ s.total > 0
  /\ s.completed + s.failed >= s.total
  /\ ~(s.queued > 0 \/ s.processing > 0)

\* checkForPrematureCompletions, when the recovery interval has passed:
\* getCompletedBackfills finds the configuration completed and started.
MonRecoveryCheck ==
  /\ mon.pc = "idle"
  /\ deploy.autoRecovery
  /\ cfg.backfill_status = "completed" /\ cfg.started_at
  /\ mon' = [mon EXCEPT !.pc = "recover_stats"]
  /\ obs' = NoObs
  /\ UNCHANGED <<tables, queues, o, wk, hk, sm, env, more>>

\* A recovery scan that never finds pending rows.
MonRecoveryStatsBlind ==
  /\ mon.pc = "recover_stats"
  /\ mon' = [pc |-> "active", snap |-> get_backfill_stats(queued_threads)]
  /\ obs' = NoObs
  /\ UNCHANGED <<tables, queues, o, wk, hk, sm, env, more>>

\* ... getThreadStats of it: rows still queued or processing call for the
\* reset.
MonRecoveryStats ==
  /\ mon.pc = "recover_stats"
  /\ LET s == get_backfill_stats(queued_threads)
     IN  mon' = [pc |-> IF s.queued + s.processing > 0 THEN "reset_cfg" ELSE "active",
                 snap |-> s]
  /\ obs' = NoObs
  /\ UNCHANGED <<tables, queues, o, wk, hk, sm, env, more>>

\* resetBackfillStatus: the configuration goes back to thread_sync ...
MonResetCfg ==
  /\ mon.pc = "reset_cfg"
  /\ cfg' = [cfg EXCEPT !.backfill_status = "thread_sync", !.completed_at = FALSE]
  /\ mon' = [mon EXCEPT !.pc = "reset_stats"]
  /\ obs' = [op |-> "reset"]
  /\ UNCHANGED <<threads, messages, queued_threads, stats, inbox_grant, queues,
                 o, wk, hk, sm, env, more>>

\* ... and sync_completed_at of the stats row is cleared.
MonResetStats ==
  /\ mon.pc = "reset_stats"
  /\ stats' = [stats EXCEPT !.sync_completed_at = FALSE]
  /\ mon' = [mon EXCEPT !.pc = "active"]
  /\ obs' = NoObs
  /\ UNCHANGED <<threads, messages, queued_threads, cfg, inbox_grant, queues,
                 o, wk, hk, sm, env, more>>

\* getActiveBackfills: the configuration is monitored while its status is
\* backfill, thread_sync or in_progress.
MonGetActive ==
  /\ mon.pc \in {"idle", "active"}
  /\ mon' = IF cfg.backfill_status \in {"backfill", "thread_sync", "in_progress"}
              THEN [MonIdle EXCEPT !.pc = "get_stats"]
              ELSE MonIdle
  /\ obs' = NoObs
  /\ UNCHANGED <<tables, queues, o, wk, hk, sm, env, more>>

\* monitorConfig: getThreadStats, updateProgressStats with what it returned,
\* then the completion test on it.  (The read and the write are one step:
\* no process reads the stats row, so the moment of the write is seen by
\* none of them.)
MonUpdateStats ==
  /\ mon.pc = "get_stats"
  /\ LET s == get_backfill_stats(queued_threads)
     IN  /\ stats' = updateProgressStats(stats, s)
         /\ mon' = IF IsComplete(s) THEN [pc |-> "mark_cfg", snap |-> s] ELSE MonIdle
  /\ obs' = [op |-> "stats_update"]
  /\ UNCHANGED <<threads, messages, queued_threads, cfg, inbox_grant, queues,
                 o, wk, hk, sm, env, more>>

\* monitorConfig when rpc get_backfill_stats answers with an error or with
\* no row: getThreadStats returns emptyStats(), updateProgressStats writes
\* it to the stats row, and the completion test runs on it.
MonStatsFails ==
  /\ mon.pc = "get_stats"
  /\ budget.fails > 0
  /\ budget' = [budget EXCEPT !.fails = @ - 1]
  /\ stats' = updateProgressStats(stats, emptyStats)
  /\ mon' = IF IsComplete(emptyStats) THEN [pc |-> "mark_cfg", snap |-> emptyStats]
            ELSE MonIdle
  /\ obs' = [op |-> "stats_error"]
  /\ UNCHANGED <<threads, messages, queued_threads, cfg, inbox_grant, queues,
                 o, wk, hk, sm, deploy, more>>

\* markBackfillComplete: the configuration becomes completed ...
MonMarkCfg ==
  /\ mon.pc = "mark_cfg"
  /\ cfg' = [cfg EXCEPT !.backfill_status = "completed", !.completed_at = TRUE]
  /\ mon' = [mon EXCEPT !.pc = "mark_stats"]
  /\ obs' = [op |-> "completed", by |-> "monitor"]
  /\ UNCHANGED <<threads, messages, queued_threads, stats, inbox_grant, queues,
                 o, wk, hk, sm, env, more>>

\* ... and the stats row gets sync_completed_at and the final counters.
MonMarkStats ==
  /\ mon.pc = "mark_stats"
  /\ stats' = IF ~stats.exists THEN stats
              ELSE [stats EXCEPT !.sync_completed_at = TRUE,
                                 !.threads_completed = mon.snap.completed,
                                 !.threads_failed = mon.snap.failed,
                                 !.messages_synced = mon.snap.messages_synced]
  /\ mon' = MonIdle
  /\ obs' = NoObs
  /\ UNCHANGED <<threads, messages, queued_threads, cfg, inbox_grant, queues,
                 o, wk, hk, sm, env, more>>

\* One poll of runWorker on an active configuration.
MonitorConfig ==
  \/ MonGetActive
  \/ MonUpdateStats
  \/ MonMarkCfg
  \/ MonMarkStats

checkForPrematureCompletions ==
  \/ MonRecoveryCheck
  \/ MonRecoveryStats
  \/ MonResetCfg
  \/ MonResetStats

CompletionMonitor == MonitorConfig \/ checkForPrematureCompletions

\* ------------------------------------------------------------ extraction
\* The extraction enqueuer (ExtractionQueueProcessor) and the extraction
\* worker (ExtractionWorker).  xcfg.pgmq is config.pgmq.enabled: with it the
\* enqueuer publishes to the pgmq queue email_extraction_jobs and the worker
\* reads that queue; without it the worker polls the tracking table
\* email_extraction_queue.

EXTRACTION_MAX_RETRIES == 3

\* Deliveries of one extraction job the model follows.
MaxReads == 5

NoExtractionThread == [extraction_status |-> "pending", extracted |-> FALSE,
                       spam |-> "unchecked"]
XeIdle == [pc |-> "poll", batch |-> <<>>]
XwIdle == [pc |-> "poll", msg_id |-> 0, thread_id |-> "", retry_count |-> 0]
TrackingRow == [status |-> "queued", retry_count |-> 0]

\* No extraction role runs and the service is up.
ExtractionOff ==
  /\ extraction_queue = [t \in ThreadIds |-> <<>>]
  /\ extraction_jobs = [next |-> 1, msgs |-> {}]
  /\ xthreads = [t \in ThreadIds |-> NoExtractionThread]
  /\ xe = XeIdle
  /\ xw = XwIdle
  /\ xcfg = [pgmq |-> TRUE, spamDetection |-> FALSE]
  /\ svc = "running"

xrest == <<deploy, tables, queues, procs, svc>>

\* get_unprocessed_threads_for_extraction: the threads that have messages
\* and no extraction record, spam and promotional threads left out.
get_unprocessed_threads_for_extraction(xt, msg) ==
  SelectSeq(ThreadOrder,
            LAMBDA t : /\ \E m \in RangeOf(ProviderMessages(t)) : msg[m] > 0
                       /\ ~xt[t].extracted
                       /\ xt[t].spam # "spam")

\* The for loop of processThreadBatch goes on to the next thread.
XeNext(batch) ==
  IF Len(batch) <= 1 THEN XeIdle
  ELSE [pc |-> IF xcfg.spamDetection THEN "spam" ELSE "check", batch |-> Tail(batch)]

\* processThreadBatch: the rpc and the start of the loop.
XePoll ==
  /\ xe.pc = "poll"
  /\ LET found == get_unprocessed_threads_for_extraction(xthreads, messages)
     IN  /\ found # <<>>
         /\ xe' = XeNext(<<"">> \o found)
  /\ obs' = NoObs
  /\ UNCHANGED <<xrest, budget, extraction_queue, extraction_jobs, xthreads, xw, xcfg>>

\* spamDetector.needsCheck and checkThread: a thread found to be spam or
\* promotional is recorded and skipped.
XeSpamCheck ==
  /\ xe.pc = "spam"
  /\ LET t == Head(xe.batch)
     IN  IF xthreads[t].spam # "unchecked"
           THEN /\ xthreads' = xthreads
                /\ xe' = [xe EXCEPT !.pc = "check"]
           ELSE \E verdict \in {"clean", "spam"} :
                  /\ xthreads' = [xthreads EXCEPT ![t].spam = verdict]
                  /\ xe' = IF verdict = "spam" THEN XeNext(xe.batch)
                           ELSE [xe EXCEPT !.pc = "check"]
  /\ obs' = NoObs
  /\ UNCHANGED <<xrest, budget, extraction_queue, extraction_jobs, xw, xcfg>>

\* The select of checkIfThreadQueued.
IsThreadQueued(tbl, t) ==
  \E i \in 1..Len(tbl[t]) : tbl[t][i].status \in {"queued", "processing", "retrying"}

\* What follows checkIfThreadQueued: skip, or queueThread.
XeChecked(isQueued) ==
  IF isQueued THEN XeNext(xe.batch)
  ELSE [xe EXCEPT !.pc = IF xcfg.pgmq THEN "publish" ELSE "insert"]

XeCheckQueued ==
  /\ xe.pc = "check"
  /\ xe' = XeChecked(IsThreadQueued(extraction_queue, Head(xe.batch)))
  /\ obs' = [op |-> "enqueue_check", t |-> Head(xe.batch),
             skipped |-> IsThreadQueued(extraction_queue, Head(xe.batch))]
  /\ UNCHANGED <<xrest, budget, extraction_queue, extraction_jobs, xthreads, xw, xcfg>>

\* The select of checkIfThreadQueued returns an error: the thread is taken
\* as not queued.
XeCheckFails ==
  /\ xe.pc = "check"
  /\ budget.fails > 0
  /\ budget' = [budget EXCEPT !.fails = @ - 1]
  /\ xe' = XeChecked(FALSE)
  /\ obs' = NoObs
  /\ UNCHANGED <<xrest, extraction_queue, extraction_jobs, xthreads, xw, xcfg>>

\* queue_thread_extraction: pgmq.send of the thread to email_extraction_jobs.
queue_thread_extraction(q, t) ==
  [next |-> q.next + 1,
   msgs |-> q.msgs \cup {[id |-> q.next, read_ct |-> 0, vis |-> TRUE, thread_id |-> t]}]

\* queueThread with PGMQ enabled: the message is published first ...
XePublish ==
  /\ xe.pc = "publish"
  /\ extraction_jobs' = queue_thread_extraction(extraction_jobs, Head(xe.batch))
  /\ xe' = [xe EXCEPT !.pc = "insert"]
  /\ obs' = [op |-> "extraction_publish", t |-> Head(xe.batch)]
  /\ UNCHANGED <<xrest, budget, extraction_queue, xthreads, xw, xcfg>>

\* UNIQUE(message_id) of email_extraction_queue: the thread's latest message
\* has a tracking row.
TrackingUniqueViolation(tbl, t) == tbl[t] # <<>>

\* ... then the tracking row is inserted; error 23505 is a skip.
XeInsert ==
  /\ xe.pc = "insert"
  /\ LET t == Head(xe.batch)
         dup == TrackingUniqueViolation(extraction_queue, t)
     IN  /\ extraction_queue' =
              IF dup THEN extraction_queue
              ELSE [extraction_queue EXCEPT ![t] = Append(@, TrackingRow)]
         /\ obs' = [op |-> "tracking_insert", t |-> t, duplicate |-> dup,
                    published |-> xcfg.pgmq]
  /\ xe' = XeNext(xe.batch)
  /\ UNCHANGED <<xrest, budget, extraction_jobs, xthreads, xw, xcfg>>

ExtractionQueueProcessor ==
  \/ XePoll
  \/ XeSpamCheck
  \/ XeCheckQueued
  \/ XePublish
  \/ XeInsert

\* processNextJobFromPGMQ: pgmq read of one message.
XwReadPGMQ ==
  /\ xw.pc = "poll"
  /\ xcfg.pgmq
  /\ Visible(extraction_jobs.msgs) # {}
  /\ LET m == CHOOSE x \in Visible(extraction_jobs.msgs) :
                  \A y \in Visible(extraction_jobs.msgs) : x.id <= y.id
     IN  /\ m.read_ct < MaxReads
         /\ extraction_jobs' = [extraction_jobs EXCEPT !.msgs = ReadMsg(@, m)]
         /\ xw' = [pc |-> "fetch", msg_id |-> m.id, thread_id |-> m.thread_id,
                   retry_count |-> 0]
         /\ obs' = [op |-> "extraction_read", t |-> m.thread_id, read_ct |-> m.read_ct + 1]
  /\ UNCHANGED <<xrest, budget, extraction_queue, xthreads, xe, xcfg>>

\* select * from email_extraction_queue where status = 'queued' order by
\* priority, queued_at: the threads of the rows, in order.
QueuedTracking(tbl) ==
  SelectSeq(ThreadOrder,
            LAMBDA t : \E i \in 1..Len(tbl[t]) : tbl[t][i].status = "queued")

\* processNextJobFromTable: the first row in status queued; processJob
\* starts with its retry-limit check.
XwReadTable ==
  /\ xw.pc = "poll"
  /\ ~xcfg.pgmq
  /\ QueuedTracking(extraction_queue) # <<>>
  /\ LET t == Head(QueuedTracking(extraction_queue))
     IN
       /\ LET rc == extraction_queue[t][1].retry_count
          IN  /\ xw' = [pc |-> IF rc >= EXTRACTION_MAX_RETRIES THEN "mark_failed"
                               ELSE "mark_processing",
                        msg_id |-> 0, thread_id |-> t, retry_count |-> rc]
              /\ obs' = [op |-> "extraction_read", t |-> t, read_ct |-> rc + 1]
  /\ UNCHANGED <<xrest, budget, extraction_queue, extraction_jobs, xthreads, xe, xcfg>>

\* UPDATE email_extraction_queue SET ... of the rows of a thread.
SetTracking(tbl, t, status, rc) ==
  [tbl EXCEPT ![t] = [i \in 1..Len(tbl[t]) |-> [status |-> status, retry_count |-> rc]]]

\* markProcessing: the tracking row and the thread.
XwMarkProcessing ==
  /\ xw.pc = "mark_processing"
  /\ extraction_queue' = SetTracking(extraction_queue, xw.thread_id, "processing", xw.retry_count)
  /\ xthreads' = [xthreads EXCEPT ![xw.thread_id].extraction_status = "processing"]
  /\ xw' = [xw EXCEPT !.pc = "fetch"]
  /\ obs' = NoObs
  /\ UNCHANGED <<xrest, budget, extraction_jobs, xe, xcfg>>

\* markFailed: the tracking row and the thread become failed.
XwMarkFailed ==
  /\ xw.pc = "mark_failed"
  /\ extraction_queue' = SetTracking(extraction_queue, xw.thread_id, "failed", xw.retry_count)
  /\ xthreads' = [xthreads EXCEPT ![xw.thread_id].extraction_status = "failed"]
  /\ xw' = XwIdle
  /\ obs' = [op |-> "extraction_failed", t |-> xw.thread_id]
  /\ UNCHANGED <<xrest, budget, extraction_jobs, xe, xcfg>>

\* fetchThreadMessages returned the messages of the thread.
XwFetch ==
  /\ xw.pc = "fetch"
  /\ xw' = [xw EXCEPT !.pc = "extract"]
  /\ obs' = NoObs
  /\ UNCHANGED <<xrest, budget, extraction_queue, extraction_jobs, xthreads, xe, xcfg>>

\* fetchThreadMessages caught an error and returned no message: the job is
\* acknowledged (PGMQ) or marked failed (table).
XwFetchFails ==
  /\ xw.pc = "fetch"
  /\ budget.fails > 0
  /\ budget' = [budget EXCEPT !.fails = @ - 1]
  /\ xw' = [xw EXCEPT !.pc = IF xcfg.pgmq THEN "ack" ELSE "mark_failed"]
  /\ obs' = NoObs
  /\ UNCHANGED <<xrest, extraction_queue, extraction_jobs, xthreads, xe, xcfg>>

\* extractWithLLM and saveExtraction succeed: the extraction record exists.
XwExtract ==
  /\ xw.pc = "extract"
  /\ xthreads' = [xthreads EXCEPT ![xw.thread_id].extracted = TRUE]
  /\ xw' = [xw EXCEPT !.pc = IF xcfg.pgmq THEN "ack" ELSE "mark_completed"]
  /\ obs' = NoObs
  /\ UNCHANGED <<xrest, budget, extraction_queue, extraction_jobs, xe, xcfg>>

\* extractWithLLM or saveExtraction throws.  The catch of processJobFromPGMQ
\* does nothing; the catch of processJob calls markRetrying.
XwThrows ==
  /\ xw.pc = "extract"
  /\ xw' = IF xcfg.pgmq THEN XwIdle ELSE [xw EXCEPT !.pc = "mark_retrying"]
  /\ obs' = [op |-> "extraction_threw", t |-> xw.thread_id]
  /\ UNCHANGED <<xrest, budget, extraction_queue, extraction_jobs, xthreads, xe, xcfg>>

\* markRetrying: back to queued with retry_count + 1.
XwMarkRetrying ==
  /\ xw.pc = "mark_retrying"
  /\ extraction_queue' =
       SetTracking(extraction_queue, xw.thread_id, "queued",
                   extraction_queue[xw.thread_id][1].retry_count + 1)
  /\ xw' = XwIdle
  /\ obs' = NoObs
  /\ UNCHANGED <<xrest, budget, extraction_jobs, xthreads, xe, xcfg>>

\* markCompleted: the tracking row is deleted, the thread is completed.
XwMarkCompleted ==
  /\ xw.pc = "mark_completed"
  /\ extraction_queue' = [extraction_queue EXCEPT ![xw.thread_id] = <<>>]
  /\ xthreads' = [xthreads EXCEPT ![xw.thread_id].extraction_status = "completed"]
  /\ xw' = XwIdle
  /\ obs' = [op |-> "extraction_done", t |-> xw.thread_id]
  /\ UNCHANGED <<xrest, budget, extraction_jobs, xe, xcfg>>

\* acknowledge_extraction_job: the message is removed from the queue and
\* the thread's extraction status is updated.
acknowledge_extraction_job(q, id) == [q EXCEPT !.msgs = DeleteMsg(@, id)]

XwAck ==
  /\ xw.pc = "ack"
  /\ extraction_jobs' = acknowledge_extraction_job(extraction_jobs, xw.msg_id)
  /\ xthreads' = [xthreads EXCEPT ![xw.thread_id].extraction_status = "completed"]
  /\ xw' = XwIdle
  /\ obs' = [op |-> "extraction_done", t |-> xw.thread_id]
  /\ UNCHANGED <<xrest, budget, extraction_queue, xe, xcfg>>

\* pgmq: the visibility timeout of an extraction job the worker read and did
\* not acknowledge ends.
ExtractionJobRedelivery ==
  /\ xw.pc = "poll"
  /\ \E m \in extraction_jobs.msgs :
       /\ ~m.vis
       /\ extraction_jobs' =
            [extraction_jobs EXCEPT !.msgs = (@ \ {m}) \cup {[m EXCEPT !.vis = TRUE]}]
  /\ obs' = NoObs
  /\ UNCHANGED <<xrest, budget, extraction_queue, xthreads, xe, xw, xcfg>>

ExtractionWorker ==
  \/ XwReadPGMQ
  \/ XwReadTable
  \/ XwMarkProcessing
  \/ XwMarkFailed
  \/ XwFetch
  \/ XwExtract
  \/ XwThrows
  \/ XwMarkRetrying
  \/ XwMarkCompleted
  \/ XwAck

\* ==================================================================== Spec
\* The backfill pipeline without faults: the orchestrator (either variant),
\* one thread-sync worker and the completion monitor on one configuration
\* whose backfill job was just queued.  At the start the work-row table is
\* empty or holds the row an earlier version left for T2 (queued, never
\* published, grant_id NULL), and the threads of the mailbox are not yet
\* persisted or were all persisted before (by webhook syncs).

SyncedTables(yes) ==
  /\ threads = [t \in ThreadIds |-> IF yes THEN 1 ELSE 0]
  /\ messages = [m \in MessageIds |-> IF yes THEN 1 ELSE 0]

InitPipeline(variants, legacies, synceds, crashes) ==
  /\ \E v \in variants, legacy \in legacies, synced \in synceds :
       /\ deploy = [variant |-> v, testingMode |-> FALSE, autoRecovery |-> TRUE,
                    legacyRows |-> legacy, synced |-> synced]
       /\ queued_threads = [t \in ThreadIds |->
                              IF legacy /\ t = "T2" THEN <<NewRow(NoGrant)>> ELSE <<>>]
       /\ SyncedTables(synced)
  /\ cfg = CfgIdle
  /\ stats = NoStats
  /\ inbox_grant = JobGrant
  /\ backfill_q = {BackfillJob(1, JobGrant)}
  /\ thread_q = {}
  /\ webhook_q = {}
  /\ notif = [n \in {} |-> "pending"]
  /\ nextId = 2
  /\ o = OIdle
  /\ wk = [w \in {"w1"} |-> WkIdle]
  /\ hk = HkIdle
  /\ sm = [p \in {"w1"} |-> SmIdle]
  /\ mon = MonIdle
  /\ budget = [fails |-> 0, crashes |-> crashes, timeouts |-> 0]
  /\ obs = NoObs
  /\ ExtractionOff

Init == InitPipeline({"bulk", "immediate"}, BOOLEAN, BOOLEAN, 0)

\* The worker of a deployment in which rows without grant_id exist.
GrantResolvingWorker ==
  \E w \in DOMAIN wk : ThreadSyncJob(w) \/ ThreadJobResolveGrant(w) \/ syncMessage(w)

Next ==
  \/ BackfillProcessor
  \/ GrantResolvingWorker
  \/ CompletionMonitor

Spec == Init /\ [][Next]_vars

\* The same pipeline with every process scheduled for ever: each of the
\* three poll loops takes its next step when it has one.
SpecFair ==
  /\ Spec
  /\ WF_vars(BackfillProcessor)
  /\ WF_vars(GrantResolvingWorker)
  /\ WF_vars(CompletionMonitor)

\* ============================================================= SpecRestart
\* The pipeline on a fresh configuration when the orchestrator process may
\* die after it inserted work rows and before it published them.  Every
\* process keeps running: the poll loops of the orchestrator, the worker and
\* the monitor go on for ever, and pgmq redelivers the backfill job when its
\* visibility timeout ends.

InitRestart == InitPipeline({"bulk", "immediate"}, {FALSE}, {FALSE}, MaxCrash)

ThreadSyncWorker == \E w \in DOMAIN wk : ThreadSyncJob(w) \/ syncMessage(w)

\* The orchestrator dies while rows it inserted are not yet published.
OrchestratorCrash ==
  /\ SelectQueued(queued_threads, TRUE, 1) # <<>>
  /\ O_Crash(BeforePublish)

NextRestart ==
  \/ BackfillRun
  \/ BackfillJobRedelivery
  \/ OrchestratorCrash
  \/ ThreadSyncWorker
  \/ CompletionMonitor

SpecRestart ==
  /\ InitRestart
  /\ [][NextRestart]_vars
  /\ WF_vars(BackfillRun)
  /\ WF_vars(BackfillJobRedelivery)
  /\ WF_vars(ThreadSyncWorker)
  /\ WF_vars(CompletionMonitor)

\* ================================================================ SpecSync
\* NylasSync under concurrent callers: two thread-sync workers and the
\* webhook consumer.  thread_sync_jobs holds two jobs of thread T1 (the
\* immediate orchestrator published T1 a second time after a redelivery of
\* its backfill job) and the webhook queue holds the message.created
\* notification of M1, a message of T1.  Nothing of T1 is persisted yet.

InitWorkers(ws, callers) ==
  /\ deploy = [variant |-> "immediate", testingMode |-> FALSE, autoRecovery |-> TRUE,
               legacyRows |-> FALSE, synced |-> FALSE]
  /\ SyncedTables(FALSE)
  /\ cfg = [CfgIdle EXCEPT !.backfill_status = "thread_sync", !.started_at = TRUE]
  /\ stats = initialize_sync_stats(0)
  /\ inbox_grant = JobGrant
  /\ backfill_q = {}
  /\ o = OPoll
  /\ wk = [w \in ws |-> WkIdle]
  /\ hk = HkIdle
  /\ sm = [p \in callers |-> SmIdle]
  /\ mon = MonIdle
  /\ obs = NoObs
  /\ ExtractionOff

InitSync ==
  /\ InitWorkers({"w1", "w2"}, {"w1", "w2", Hook})
  /\ queued_threads = [t \in ThreadIds |->
                         IF t = "T1" THEN <<PublishedRow(JobGrant)>> ELSE <<>>]
  /\ thread_q = {ThreadJob(1, "T1", JobGrant), ThreadJob(2, "T1", JobGrant)}
  /\ webhook_q = {Notification(3, "message.created", "M1")}
  /\ notif = [n \in {3} |-> "pending"]
  /\ nextId = 4
  /\ budget = [fails |-> 0, crashes |-> 0, timeouts |-> 0]

NextSync ==
  \/ \E w \in DOMAIN wk : ThreadSyncJob(w) \/ syncMessage(w)
  \/ WebhookMessageJob

SpecSync == InitSync /\ [][NextSync]_vars

\* ================================================================ SpecRetry
\* One thread-sync worker whose jobs fail: the provider may throw, the
\* worker may die in the middle of a job, and a visibility timeout may end
\* while the job is still processed.  The job of T1 was delivered
\* MAX_RETRIES - 1 times before, each attempt ended in the catch of
\* processThreadJob, so its work row is in status processing; the job of T2
\* is new.

InitRetry ==
  /\ InitWorkers({"w1"}, {"w1"})
  /\ queued_threads =
       [t \in ThreadIds |->
          IF t = "T1" THEN <<[PublishedRow(JobGrant) EXCEPT !.status = "processing"]>>
          ELSE <<PublishedRow(JobGrant)>>]
  /\ thread_q = {[ThreadJob(1, "T1", JobGrant) EXCEPT !.read_ct = THREAD_MAX_RETRIES - 1],
                 ThreadJob(2, "T2", JobGrant)}
  /\ webhook_q = {}
  /\ notif = [n \in {} |-> "pending"]
  /\ nextId = 3
  /\ budget = [fails |-> MaxFail, crashes |-> MaxCrash, timeouts |-> MaxTimeout]

NextRetry ==
  \/ \E w \in DOMAIN wk :
       \/ ThreadSyncJob(w)
       \/ syncMessage(w)
       \/ ThreadJobLimitDelete(w)
       \/ ThreadJobProviderThrows(w)
       \/ SyncProviderThrows(w)
       \/ ThreadWorkerCrash(w)
  \/ ThreadJobRedelivery
  \/ ThreadJobTimeout

SpecRetry == InitRetry /\ [][NextRetry]_vars

\* ============================================================== SpecFailing
\* The pipeline when a delivery of the backfill job may throw (threads.list
\* of a page, or the select of bulkQueueThreads) and pgmq redelivers the
\* job.  The job is new, or it was delivered MAX_RETRIES - 1 times before
\* and each delivery threw at the list of page 2: the checkpoint of page 1
\* is saved, the configuration is failed, and the row of T1 exists (and is
\* published, in the immediate variant).

FailedAtPageTwo ==
  [backfill_status |-> "failed", started_at |-> TRUE, completed_at |-> FALSE,
   progress |-> [last_page_token |-> 2, threads_queued |-> 1, current_page |-> 1,
                 error |-> TRUE]]

InitFailing ==
  /\ \E v \in {"bulk", "immediate"}, prior \in {0, BACKFILL_MAX_RETRIES - 1} :
       /\ deploy = [variant |-> v, testingMode |-> FALSE, autoRecovery |-> TRUE,
                    legacyRows |-> FALSE, synced |-> FALSE]
       /\ queued_threads =
            [t \in ThreadIds |->
               IF prior = 0 \/ t # "T1" THEN <<>>
               ELSE IF v = "immediate" THEN <<PublishedRow(JobGrant)>>
               ELSE <<NewRow(JobGrant)>>]
       /\ cfg = IF prior = 0 THEN CfgIdle ELSE FailedAtPageTwo
       /\ stats = IF prior = 0 THEN NoStats ELSE initialize_sync_stats(0)
       /\ backfill_q = {[BackfillJob(1, JobGrant) EXCEPT !.read_ct = prior]}
       /\ thread_q = IF prior > 0 /\ v = "immediate"
                       THEN {ThreadJob(2, "T1", JobGrant)} ELSE {}
       /\ nextId = IF prior > 0 /\ v = "immediate" THEN 3 ELSE 2
  /\ SyncedTables(FALSE)
  /\ inbox_grant = JobGrant
  /\ webhook_q = {}
  /\ notif = [n \in {} |-> "pending"]
  /\ o = OIdle
  /\ wk = [w \in {"w1"} |-> WkIdle]
  /\ hk = HkIdle
  /\ sm = [p \in {"w1"} |-> SmIdle]
  /\ mon = MonIdle
  /\ budget = [fails |-> MaxFail, crashes |-> 0, timeouts |-> 0]
  /\ obs = NoObs
  /\ ExtractionOff

NextFailing ==
  \/ BackfillRun
  \/ O_ListThrows
  \/ O_BulkSelectFails
  \/ O_Catch
  \/ O_LimitFail
  \/ O_LimitDelete
  \/ BackfillJobRedelivery
  \/ ThreadSyncWorker
  \/ CompletionMonitor

SpecFailing == InitFailing /\ [][NextFailing]_vars

\* ============================================================== SpecRegrant
\* The pipeline after the inbox was authorised again: the inbox binding and
\* the new backfill job hold grant G, while the earlier run, made under the
\* grant G0, left the configuration in thread_sync with the work row of T1
\* queued and published, its message (grant G0) still on thread_sync_jobs.

OldGrant == "G0"

InitRegrant ==
  /\ \E v \in {"bulk", "immediate"} :
       deploy = [variant |-> v, testingMode |-> FALSE, autoRecovery |-> TRUE,
                 legacyRows |-> TRUE, synced |-> FALSE]
  /\ SyncedTables(FALSE)
  /\ queued_threads = [t \in ThreadIds |->
                         IF t = "T1" THEN <<PublishedRow(OldGrant)>> ELSE <<>>]
  /\ cfg = [CfgIdle EXCEPT !.backfill_status = "thread_sync", !.started_at = TRUE]
  /\ stats = initialize_sync_stats(0)
  /\ inbox_grant = JobGrant
  /\ backfill_q = {BackfillJob(1, JobGrant)}
  /\ thread_q = {ThreadJob(2, "T1", OldGrant)}
  /\ webhook_q = {}
  /\ notif = [n \in {} |-> "pending"]
  /\ nextId = 3
  /\ o = OIdle
  /\ wk = [w \in {"w1"} |-> WkIdle]
  /\ hk = HkIdle
  /\ sm = [p \in {"w1"} |-> SmIdle]
  /\ mon = MonIdle
  /\ budget = [fails |-> 0, crashes |-> 0, timeouts |-> 0]
  /\ obs = NoObs
  /\ ExtractionOff

NextRegrant ==
  \/ BackfillRun
  \/ ThreadSyncWorker
  \/ CompletionMonitor

SpecRegrant == InitRegrant /\ [][NextRegrant]_vars

\* ============================================================== SpecWebhook
\* The webhook consumer alone, in production or in testing mode, on a queue
\* of three notifications: message.created of M1, a message.updated whose
\* payload has no message id, and thread.replied of T2.  The mailbox is not
\* yet persisted or wholly persisted.  The provider may throw in a sync, and
\* messages the consumer did not delete are delivered again.

InitWebhook ==
  /\ \E testing \in BOOLEAN, synced \in BOOLEAN :
       /\ deploy = [variant |-> "immediate", testingMode |-> testing,
                    autoRecovery |-> TRUE, legacyRows |-> FALSE, synced |-> synced]
       /\ SyncedTables(synced)
  /\ queued_threads = [t \in ThreadIds |-> <<>>]
  /\ cfg = CfgIdle
  /\ stats = NoStats
  /\ inbox_grant = JobGrant
  /\ backfill_q = {}
  /\ thread_q = {}
  /\ webhook_q = {Notification(1, "message.created", "M1"),
                  Notification(2, "message.updated", ""),
                  Notification(3, "thread.replied", "T2")}
  /\ notif = [n \in {1, 2, 3} |-> "pending"]
  /\ nextId = 4
  /\ o = OPoll
  /\ wk = [w \in {"w1"} |-> WkIdle]
  /\ hk = HkIdle
  /\ sm = [p \in {"w1", Hook} |-> SmIdle]
  /\ mon = MonIdle
  /\ budget = [fails |-> MaxFail, crashes |-> 0, timeouts |-> MaxTimeout]
  /\ obs = NoObs
  /\ ExtractionOff

NextWebhook ==
  \/ QueueProcessor
  \/ SyncProviderThrows(Hook)
  \/ WebhookRedelivery
  \/ WebhookTimeout

SpecWebhook == InitWebhook /\ [][NextWebhook]_vars

\* =============================================================== SpecResync
\* One thread-sync worker on jobs whose threads and messages are all
\* persisted already (by webhook syncs, or by an earlier delivery of the
\* same payload): the job of T1 is read for the first time or was read once
\* before by a worker that died, the job of T2 is new.  The worker may die
\* in the middle of a job, which is then delivered again.

InitResync ==
  /\ deploy = [variant |-> "immediate", testingMode |-> FALSE, autoRecovery |-> TRUE,
               legacyRows |-> FALSE, synced |-> TRUE]
  /\ SyncedTables(TRUE)
  /\ \E prior \in {0, 1} :
       /\ queued_threads =
            [t \in ThreadIds |->
               IF t = "T1" /\ prior = 1
                 THEN <<[PublishedRow(JobGrant) EXCEPT !.status = "processing"]>>
                 ELSE <<PublishedRow(JobGrant)>>]
       /\ thread_q = {[ThreadJob(1, "T1", JobGrant) EXCEPT !.read_ct = prior],
                      ThreadJob(2, "T2", JobGrant)}
  /\ cfg = [CfgIdle EXCEPT !.backfill_status = "thread_sync", !.started_at = TRUE]
  /\ stats = initialize_sync_stats(0)
  /\ inbox_grant = JobGrant
  /\ backfill_q = {}
  /\ webhook_q = {}
  /\ notif = [n \in {} |-> "pending"]
  /\ nextId = 3
  /\ o = OPoll
  /\ wk = [w \in {"w1"} |-> WkIdle]
  /\ hk = HkIdle
  /\ sm = [p \in {"w1"} |-> SmIdle]
  /\ mon = MonIdle
  /\ budget = [fails |-> 0, crashes |-> MaxCrash, timeouts |-> 0]
  /\ obs = NoObs
  /\ ExtractionOff

NextResync ==
  \/ \E w \in DOMAIN wk :
       \/ ThreadSyncJob(w)
       \/ syncMessage(w)
       \/ ThreadWorkerCrash(w)
  \/ ThreadJobRedelivery

SpecResync == InitResync /\ [][NextResync]_vars

\* ============================================================ SpecExtraction
\* The extraction enqueuer and one extraction worker on a mailbox whose two
\* threads are persisted and not yet extracted, with the durable queue or
\* with table polling, spam detection on or off.  The LLM call of any
\* attempt may throw; a select of the enqueuer or of the worker may return
\* an error; pgmq redelivers what the worker did not acknowledge.

PipelineAtRest ==
  /\ deploy = [variant |-> "bulk", testingMode |-> FALSE, autoRecovery |-> TRUE,
               legacyRows |-> FALSE, synced |-> TRUE]
  /\ SyncedTables(TRUE)
  /\ queued_threads = [t \in ThreadIds |-> <<>>]
  /\ cfg = CfgIdle
  /\ stats = NoStats
  /\ inbox_grant = JobGrant
  /\ backfill_q = {}
  /\ thread_q = {}
  /\ webhook_q = {}
  /\ notif = [n \in {} |-> "pending"]
  /\ nextId = 1
  /\ o = OPoll
  /\ wk = [w \in {"w1"} |-> WkIdle]
  /\ hk = HkIdle
  /\ sm = [p \in {"w1", Hook} |-> SmIdle]
  /\ mon = MonIdle

InitExtraction ==
  /\ PipelineAtRest
  /\ budget = [fails |-> MaxFail, crashes |-> 0, timeouts |-> 0]
  /\ obs = NoObs
  /\ extraction_queue = [t \in ThreadIds |-> <<>>]
  /\ extraction_jobs = [next |-> 1, msgs |-> {}]
  /\ xthreads = [t \in ThreadIds |-> NoExtractionThread]
  /\ xe = XeIdle
  /\ xw = XwIdle
  /\ \E q \in BOOLEAN, sd \in BOOLEAN : xcfg = [pgmq |-> q, spamDetection |-> sd]
  /\ svc = "running"

NextExtraction ==
  \/ ExtractionQueueProcessor
  \/ XeCheckFails
  \/ ExtractionWorker
  \/ XwFetchFails
  \/ ExtractionJobRedelivery

SpecExtraction == InitExtraction /\ [][NextExtraction]_vars

\* ============================================================= SpecShutdown
\* The pipeline of Spec in a service process that may receive SIGTERM or
\* SIGINT at any moment.

\* shutdown(signal): stop() of every processor sets its isRunning to false
\* and returns at once, Promise.all of these resolves, process.exit(0).
shutdown ==
  /\ svc = "running"
  /\ svc' = "exited"
  /\ obs' = [op |-> "exit"]
  /\ UNCHANGED <<deploy, tables, queues, procs, budget, extraction_queue,
                 extraction_jobs, xthreads, xe, xw, xcfg>>

NextShutdown ==
  \/ svc = "running" /\ Next
  \/ shutdown

SpecShutdown == Init /\ [][NextShutdown]_vars

\* ================================================================== claims

Fresh == ~deploy.legacyRows /\ ~deploy.synced
Row(t) == queued_threads[t][1]
Pending == RowsIn(queued_threads, "queued") \cup RowsIn(queued_threads, "processing")

\* C1: under every interleaving of the message syncs of the webhook
\* consumer and of the thread-sync workers (two workers on one thread
\* included) the threads table holds at most one row per remote thread id
\* and the messages table at most one row per remote message id.
C1_OneRowPerRemoteId ==
  /\ \A t \in ThreadIds : threads[t] <= 1
  /\ \A m \in MessageIds : messages[m] <= 1

\* A caller lost the race: its insert of a thread or of a message that
\* another caller had inserted meanwhile was refused.
C1_InsertRefused ==
  /\ obs.op \in {"thread_insert_refused", "message_insert_refused"}
  /\ \E t \in ThreadIds : threads[t] = 1

\* C2: after any sequence of orchestrator runs, retries and re-queues the
\* work-row table holds at most one row per (config_id, remote_thread_id),
\* and the insert of a key that is present adds no row and leaves the row of
\* that key in status queued.
C2_OneRowPerKey ==
  /\ \A t \in ThreadIds : Len(queued_threads[t]) <= 1
  /\ (obs.op = "row_insert" /\ obs.rows_before > 0) =>
       /\ Len(queued_threads[obs.t]) = obs.rows_before
       /\ Row(obs.t).status = "queued"

\* A redelivered job has just re-inserted the key of a row that a worker had
\* taken to processing (or beyond).
C2_Requeued ==
  /\ obs.op = "row_insert"
  /\ obs.rows_before = 1
  /\ obs.status_before # "queued"
  /\ budget.crashes < MaxCrash

\* C3: the status of the configuration is set to completed only in a state
\* where threads_completed + threads_failed >= threads_queued and
\* threads_queued > 0 hold of its stats row and none of its work rows is
\* queued or processing.
C3_CompletedOnlyWhenDone ==
  [][(cfg.backfill_status # "completed" /\ cfg'.backfill_status = "completed") =>
       /\ stats.threads_completed + stats.threads_failed >= stats.threads_queued
       /\ stats.threads_queued > 0
       /\ Pending = {}]_vars

\* The configuration is completed and started while work rows are pending.
Premature == cfg.backfill_status = "completed" /\ cfg.started_at /\ Pending # {}

\* The state resetBackfillStatus leaves.
ResetDone ==
  /\ cfg.backfill_status = "thread_sync"
  /\ ~cfg.completed_at
  /\ ~stats.sync_completed_at

\* C4 as stated: a completed, started configuration with a work row queued
\* or processing is eventually set back to thread_sync by the monitor, with
\* completed_at and sync_completed_at cleared.
C4_PrematureAlwaysReset == Premature ~> ResetDone

\* C4, amended: such a configuration is eventually set back to thread_sync
\* with both timestamps cleared, or its pending rows have meanwhile all
\* left queued and processing; and a configuration in thread_sync whose
\* work rows are all terminal is eventually marked completed.
C4_PrematureResetOrDrained ==
  /\ Premature ~> (ResetDone \/ Pending = {})
  /\ (cfg.backfill_status = "thread_sync" /\ AllRows(queued_threads) # {} /\ Pending = {})
       ~> (cfg.backfill_status = "completed")

\* The monitor has just reset a configuration whose rows were pending.
C4_MonitorReset == obs.op = "reset" /\ Pending # {}

\* C5 as stated: every message on thread_sync_jobs carries a non-empty
\* grant_id.
C5_PublishedGrantNonEmpty == \A m \in thread_q : m.grant_id # NoGrant

\* C5, amended: a message the orchestrator publishes carries the grant_id
\* its work row holds, empty or not, and a worker is past its grant
\* resolution, at its provider calls, only with a non-empty grant.
C5_GrantResolvedByWorker ==
  /\ obs.op = "publish" => obs.grant = Row(obs.t).grant_id
  /\ \A w \in DOMAIN wk : wk[w].pc \in {"mark", "sync"} => wk[w].grant_id # NoGrant

\* A worker is about to call the provider for a job that was published
\* with an empty grant_id.
C5_ResolvedAfterDequeue ==
  \E w \in DOMAIN wk, m \in thread_q :
    /\ wk[w].pc = "mark"
    /\ m.id = wk[w].msg_id
    /\ m.grant_id = NoGrant
    /\ wk[w].grant_id = inbox_grant

\* C6: a redelivered backfill job adds no work row, thread row or message
\* row and leaves the checkpoint's threads_queued and the threads_queued
\* handed to the thread_sync transition at what one delivery produces: the
\* number of threads of the mailbox at most.
C6_RedeliveryNoDrift ==
  /\ \A t \in ThreadIds : Len(queued_threads[t]) <= 1 /\ threads[t] <= 1
  /\ \A m \in MessageIds : messages[m] <= 1
  /\ cfg.progress.threads_queued <= Cardinality(ThreadIds)
  /\ obs.op = "transition" => obs.threads_queued <= Cardinality(ThreadIds)

\* Every thread of the mailbox has its work row in a terminal status.
AllTerminal ==
  \A t \in ThreadIds :
    Len(queued_threads[t]) = 1 /\ Row(t).status \in {"completed", "failed"}

\* The configuration closed: it is completed, nothing is left on
\* thread_sync_jobs and every work row is terminal.
Closed == cfg.backfill_status = "completed" /\ thread_q = {} /\ AllTerminal

C7_StatsBounded ==
  /\ stats.threads_completed + stats.threads_failed <= stats.threads_queued
  /\ stats.threads_processing >= 0

\* The pipeline has come to rest with the configuration completed: nothing
\* is queued and every process is back at its poll.
Quiescent ==
  /\ cfg.backfill_status = "completed"
  /\ backfill_q = {} /\ thread_q = {}
  /\ o.pc = "poll" /\ mon.pc = "idle"
  /\ \A w \in DOMAIN wk : wk[w].pc = "poll"

\* C8: the fresh backfill of T1 (M1, M2) and T2 (M3) without failures comes
\* to rest with 2 work rows, both completed, the stats row {threads_total =
\* 0, threads_queued = 2, threads_completed = 2, threads_failed = 0,
\* messages_synced = 3}, one row per thread and per message, and an empty
\* thread_sync_jobs queue.
C8_FreshBackfillOutcome ==
  (Fresh /\ Quiescent) =>
    /\ \A t \in ThreadIds : Len(queued_threads[t]) = 1 /\ Row(t).status = "completed"
    /\ \A t \in ThreadIds : threads[t] = 1
    /\ \A m \in MessageIds : messages[m] = 1
    /\ stats.threads_total = 0
    /\ stats.threads_queued = 2
    /\ stats.threads_completed = 2
    /\ stats.threads_failed = 0
    /\ stats.messages_synced = 3

\* C10: when a worker read a thread_sync_jobs message with read_ct above
\* MAX_RETRIES (5) and deleted it, the work row of its thread is in status
\* failed, not queued or processing.
C10_LimitRecordsFailure ==
  obs.op = "retry_limit" =>
    /\ \A m \in thread_q : m.id # obs.id
    /\ Row(obs.t).status = "failed"

\* The checkpoint fields of a progress blob.
Checkpoint(p) == <<p.last_page_token, p.threads_queued, p.current_page>>

\* C11: the catch of a backfill job that threw sets the status to failed,
\* records the error in the progress blob, leaves last_page_token,
\* threads_queued and current_page as last saved and leaves the job on the
\* queue; a job read with read_ct > 3 sets the status to failed and is
\* deleted, with those checkpoint fields unchanged.
C11_FailureKeepsCheckpoint ==
  [][/\ (o.pc = "catch" /\ o'.pc # "catch") =>
          /\ cfg'.backfill_status = "failed"
          /\ cfg'.progress.error
          /\ Checkpoint(cfg'.progress) = Checkpoint(cfg.progress)
          /\ \E m \in backfill_q' : m.id = o.msg_id
     /\ (o.pc = "limit_fail" /\ o'.pc # "limit_fail") =>
          /\ o.read_ct > BACKFILL_MAX_RETRIES
          /\ cfg'.backfill_status = "failed"
          /\ Checkpoint(cfg'.progress) = Checkpoint(cfg.progress)
     /\ (o.pc = "limit_delete" /\ o'.pc # "limit_delete") =>
          /\ Checkpoint(cfg'.progress) = Checkpoint(cfg.progress)
          /\ \A m \in backfill_q' : m.id # o.msg_id]_vars

\* A job that threw in this run was dropped at the retry limit and the
\* checkpoint of its last saved page is still there.
C11_DroppedWithCheckpoint ==
  /\ obs.op = "backfill_dropped"
  /\ budget.fails < MaxFail
  /\ cfg.backfill_status = "failed"
  /\ backfill_q = {}
  /\ cfg.progress.error
  /\ cfg.progress.current_page >= 1

\* C12: until clearBackfillCheckpoint runs at the end of the orchestration,
\* every write of the progress blob (page saves, failures, redelivered
\* jobs) leaves current_page at or above its previous value.
C12_CheckpointMonotone ==
  [][o.pc # "clear_checkpoint" =>
       cfg'.progress.current_page >= cfg.progress.current_page]_vars

\* A redelivered job has just saved a checkpoint over the one an earlier
\* delivery left.
C12_SavedAfterRedelivery ==
  /\ obs.op = "checkpoint"
  /\ obs.read_ct > 1
  /\ cfg.progress.current_page > 1

\* The status of the work row of thread t, "none" while there is no row.
RowStatus(tbl, t) == IF tbl[t] = <<>> THEN "none" ELSE tbl[t][1].status

\* The orchestrator is in recoverOrphanedThreads of start().
StartupRecovery ==
  o.pc = "start" \/ (o.pc \in {"publish", "stamp"} /\ o.ret = "poll")

\* C13: every status change of a work row is queued -> processing,
\* processing -> completed or processing -> failed, or else processing ->
\* queued made by the orchestrator's startup recovery; no job run and no
\* worker takes a row back to queued, and no row leaves completed or failed.
C13_RowTransitions ==
  [][\A t \in ThreadIds :
       LET a == RowStatus(queued_threads, t)
           b == RowStatus(queued_threads', t)
       IN  \/ a = b
           \/ a = "none" /\ b = "queued"
           \/ <<a, b>> \in {<<"queued", "processing">>, <<"processing", "completed">>,
                            <<"processing", "failed">>}
           \/ <<a, b>> = <<"processing", "queued">> /\ StartupRecovery]_vars


ConfigEdges ==
  { <<"idle", "backfill">>, <<"backfill", "thread_sync">>,
    <<"thread_sync", "completed">>, <<"completed", "thread_sync">> }

\* C14: every change of a configuration's backfill status follows one of the
\* edges idle -> backfill, backfill -> thread_sync, thread_sync -> completed,
\* anything -> failed, completed -> thread_sync; no other change is made.
C14_ConfigTransitions ==
  [][\/ cfg'.backfill_status = cfg.backfill_status
     \/ cfg'.backfill_status = "failed"
     \/ <<cfg.backfill_status, cfg'.backfill_status>> \in ConfigEdges]_vars

C16_ProviderCallsUseInboxGrant ==
  \A w \in DOMAIN wk : wk[w].pc \in {"mark", "sync"} => wk[w].grant_id = inbox_grant

\* The consumer leaves processMessage of the message it holds.
HkDone == hk.cur # NoMsg /\ hk' # hk /\ hk'.cur # hk.cur

\* The message the consumer holds is on the queue after the step.
HkKept == \E m \in webhook_q' : m.id = hk.cur.id

\* C17: a message.created or message.updated notification without a
\* message id fails for good on its first delivery: when the consumer is
\* done with it the notification row is in error and the queue message is
\* deleted.
C17_MissingIdTerminal ==
  [][(HkDone /\ hk.cur.type # "thread.replied" /\ hk.cur.target = "") =>
       /\ notif'[hk.cur.nid] = "error"
       /\ ~HkKept]_vars

\* C18: a notification whose handling failed on a read with read_ct <= 3
\* stays on the queue; a notification read with read_ct > 3 gets no handler
\* call, its row is set to error with the retry-limit message and its queue
\* message is deleted.
C18_RetryLimit ==
  [][/\ hk.pc \in {"set_processing", "handle", "sync_thread", "ack_update",
                   "ack_delete", "catch_update"} =>
          hk.cur.read_ct <= WEBHOOK_MAX_RETRIES
     /\ (hk.pc = "catch_update" /\ HkDone) => HkKept
     /\ hk.pc \in {"limit_update", "limit_delete"} =>
          /\ hk.cur.read_ct > WEBHOOK_MAX_RETRIES
          /\ sm'[Hook] = SmIdle
          /\ threads' = threads /\ messages' = messages
     /\ (hk.pc = "limit_update" /\ hk' # hk) =>
          /\ notif'[hk.cur.nid] = "error"
          /\ obs'.error_message = "Exceeded retry limit"
     /\ (hk.pc = "limit_delete" /\ HkDone) =>
          /\ notif'[hk.cur.nid] = "error"
          /\ ~HkKept]_vars

\* The notification without a message id, which failed on three deliveries,
\* was dropped on the fourth.
C18_DroppedAtLimit ==
  /\ obs.op = "webhook_retry_limit"
  /\ notif[obs.nid] = "error"
  /\ \A m \in webhook_q : m.nid # obs.nid
  /\ obs.nid = 2

\* C19: in testing mode no step removes a message from the webhook queue.
C19_TestingModeKeepsMessages ==
  [][deploy.testingMode =>
       \A m \in webhook_q : \E n \in webhook_q' : n.id = m.id]_vars

C21_ResyncInsertsNothing ==
  [][/\ threads' = threads
     /\ messages' = messages
     /\ \A w \in DOMAIN wk :
          (/\ wk[w].pc = "complete_update"
           /\ wk'[w].pc = "complete_delete"
           /\ RowStatus(queued_threads, wk[w].thread_id) = "processing") =>
            /\ Row(wk[w].thread_id)' =
                 [Row(wk[w].thread_id) EXCEPT
                    !.status = "completed",
                    !.messages_synced = Len(ProviderMessages(wk[w].thread_id))]]_vars

\* The second delivery of the job of T1 was completed: its two messages
\* are counted although none was inserted.
C21_SecondDeliveryDone ==
  /\ obs.op = "thread_done"
  /\ obs.t = "T1"
  /\ budget.crashes < MaxCrash
  /\ Row("T1").status = "completed"
  /\ Row("T1").messages_synced = 2
  /\ \A m \in MessageIds : messages[m] = 1

\* The extraction jobs of thread t on the queue.
JobsOf(t) == {m \in extraction_jobs.msgs : m.thread_id = t}

\* C22: an extraction job whose processing throws on every attempt is
\* delivered once and then again at most max_retries times, in the
\* durable-queue mode as in the table-polling mode: no job is read more
\* than max_retries + 1 times, and a thread whose tracking row is failed is
\* not in the hands of the worker again.
C22_ExtractionRetriesBounded ==
  /\ \A m \in extraction_jobs.msgs : m.read_ct <= EXTRACTION_MAX_RETRIES + 1
  /\ obs.op = "extraction_read" => obs.read_ct <= EXTRACTION_MAX_RETRIES + 1
  /\ \A t \in ThreadIds :
       (extraction_queue[t] # <<>> /\ extraction_queue[t][1].status = "failed") =>
          ~(xw.thread_id = t /\ xw.pc \in {"mark_processing", "fetch", "extract"})

\* C23: while a thread is unextracted it has at most one message on
\* extraction_jobs and at most one tracking row; a thread found in the
\* tracking table in status queued, processing or retrying is skipped; and
\* an enqueue attempt whose tracking insert hit a duplicate key has added
\* no message to extraction_jobs.
C23_EnqueueIdempotent ==
  /\ \A t \in ThreadIds :
       ~xthreads[t].extracted =>
         /\ Cardinality(JobsOf(t)) <= 1
         /\ Len(extraction_queue[t]) <= 1
  /\ (obs.op = "enqueue_check" /\ obs.skipped) => xe.pc \notin {"publish", "insert"}
  /\ (obs.op = "tracking_insert" /\ obs.duplicate) => ~obs.published

\* No role is in the middle of a poll iteration.
BetweenIterations ==
  /\ o.pc \in {"start", "poll"}
  /\ \A w \in DOMAIN wk : wk[w].pc = "poll"
  /\ hk.pc = "poll"
  /\ mon.pc = "idle"
  /\ xe.pc = "poll"
  /\ xw.pc = "poll"

\* C24: the process exits on a shutdown signal only once the poll iteration
\* each role had in flight has run to its end.
C24_ExitAfterIterations ==
  [][(svc = "running" /\ svc' = "exited") => BetweenIterations]_vars

\* ------------------------------------------------------------ SpecRange
\* One orchestration job whose dates are drawn from KnownRanges is run by
\* either orchestrator variant.  days and year_before are the calendar facts
\* of each range, written out by hand: the number of days from start_date to
\* end_date, and the date 365 days before end_date.
KnownRanges ==
  { [start_date |-> <<2024, 1, 1>>,   end_date |-> <<2024, 1, 1>>,
     days |-> 0,   year_before |-> <<2023, 1, 1>>],
    [start_date |-> <<2023, 1, 2>>,   end_date |-> <<2024, 1, 1>>,
     days |-> 364, year_before |-> <<2023, 1, 1>>],
    [start_date |-> <<2023, 1, 1>>,   end_date |-> <<2024, 1, 1>>,
     days |-> 365, year_before |-> <<2023, 1, 1>>],
    [start_date |-> <<2022, 12, 31>>, end_date |-> <<2024, 1, 1>>,
     days |-> 366, year_before |-> <<2023, 1, 1>>],
    [start_date |-> <<2022, 12, 30>>, end_date |-> <<2024, 1, 1>>,
     days |-> 367, year_before |-> <<2023, 1, 1>>],
    [start_date |-> <<2022, 1, 1>>,   end_date |-> <<2024, 1, 1>>,
     days |-> 730, year_before |-> <<2023, 1, 1>>],
    [start_date |-> <<2023, 3, 2>>,   end_date |-> <<2024, 3, 1>>,
     days |-> 365, year_before |-> <<2023, 3, 2>>],
    [start_date |-> <<2023, 3, 1>>,   end_date |-> <<2024, 3, 1>>,
     days |-> 366, year_before |-> <<2023, 3, 2>>],
    [start_date |-> <<2023, 2, 28>>,  end_date |-> <<2024, 3, 1>>,
     days |-> 367, year_before |-> <<2023, 3, 2>>],
    [start_date |-> <<2022, 12, 31>>, end_date |-> <<2023, 12, 31>>,
     days |-> 365, year_before |-> <<2022, 12, 31>>],
    [start_date |-> <<2022, 12, 30>>, end_date |-> <<2023, 12, 31>>,
     days |-> 366, year_before |-> <<2022, 12, 31>>],
    [start_date |-> <<2020, 2, 29>>,  end_date |-> <<2021, 2, 28>>,
     days |-> 365, year_before |-> <<2020, 2, 29>>],
    [start_date |-> <<2020, 2, 28>>,  end_date |-> <<2021, 2, 28>>,
     days |-> 366, year_before |-> <<2020, 2, 29>>] }

InitRange ==
  /\ \E v \in {"bulk", "immediate"} :
       deploy = [variant |-> v, testingMode |-> FALSE, autoRecovery |-> TRUE,
                 legacyRows |-> FALSE, synced |-> FALSE]
  /\ queued_threads = [t \in ThreadIds |-> <<>>]
  /\ SyncedTables(FALSE)
  /\ cfg = CfgIdle
  /\ stats = NoStats
  /\ inbox_grant = JobGrant
  /\ \E r \in KnownRanges :
       backfill_q = {[BackfillJob(1, JobGrant) EXCEPT
                        !.start_date = r.start_date, !.end_date = r.end_date]}
  /\ thread_q = {}
  /\ webhook_q = {}
  /\ notif = [n \in {} |-> "pending"]
  /\ nextId = 2
  /\ o = OIdle
  /\ wk = [w \in {"w1"} |-> WkIdle]
  /\ hk = HkIdle
  /\ sm = [p \in {"w1"} |-> SmIdle]
  /\ mon = MonIdle
  /\ budget = [fails |-> 0, crashes |-> 0, timeouts |-> 0]
  /\ obs = NoObs
  /\ ExtractionOff

SpecRange == InitRange /\ [][BackfillRun]_vars

\* The orchestration job the orchestrator is working on, with the calendar
\* facts of its range.
JobInHand ==
  {r \in KnownRanges :
     \E m \in backfill_q : /\ o.msg_id = m.id
                           /\ m.start_date = r.start_date
                           /\ m.end_date = r.end_date}

\* C25: a job whose range is d days long is paged with its own start_date
\* when d <= 365 and with end_date - 365 days when d > 365 (one day later
\* than its own start when d = 366); end_date is never changed.
C25_RangeCappedAtOneYear ==
  \A r \in JobInHand :
    /\ o.end_date = r.end_date
    /\ r.days <= 365 => o.start_date = r.start_date
    /\ r.days > 365 => o.start_date = r.year_before
    /\ r.days = 366 =>
         days_from_civil(o.start_date) = days_from_civil(r.start_date) + 1
    /\ obs.op = "list" =>
         /\ obs.latestMessageAfter = getTime(o.start_date)
         /\ obs.latestMessageBefore = getTime(r.end_date)

C25_Range366Paged ==
  /\ obs.op = "list"
  /\ \E r \in JobInHand : /\ r.days = 366
                          /\ r.start_date = <<2022, 12, 31>>
                          /\ o.start_date = <<2023, 1, 1>>
                          /\ o.end_date = <<2024, 1, 1>>

ExampleJob ==
  \E m \in backfill_q : /\ o.msg_id = m.id
                        /\ m.start_date = <<2022, 1, 1>>
                        /\ m.end_date = <<2024, 1, 1>>

\* C26: the job enqueued with start 2022-01-01 and end 2024-01-01 is
\* processed with start 2023-01-01 (365 days before the end) and end
\* 2024-01-01.
C26_ExampleJobClamped ==
  ExampleJob => o.start_date = <<2023, 1, 1>> /\ o.end_date = <<2024, 1, 1>>

\* C26 as stated: that job is processed with start 2023-01-02 and end
\* 2024-01-01.
C26_ExampleJobStartJan2 ==
  ExampleJob => o.start_date = <<2023, 1, 2>> /\ o.end_date = <<2024, 1, 1>>

C26_ExampleJobPaged ==
  /\ ExampleJob
  /\ obs.op = "list"
  /\ obs.latestMessageAfter = getTime(<<2023, 1, 1>>)
  /\ o.start_date = <<2023, 1, 1>>

\* ------------------------------------------------------------ SpecPublish
\* The orchestrator alone, either variant, with or without a work row left
\* unpublished by an earlier run, and with publications that may fail.
InitPublish ==
  /\ \E v \in {"bulk", "immediate"}, legacy \in BOOLEAN :
       /\ deploy = [variant |-> v, testingMode |-> FALSE, autoRecovery |-> TRUE,
                    legacyRows |-> legacy, synced |-> FALSE]
       /\ queued_threads = [t \in ThreadIds |->
                              IF legacy /\ t = "T2" THEN <<NewRow(JobGrant)>> ELSE <<>>]
  /\ SyncedTables(FALSE)
  /\ cfg = CfgIdle
  /\ stats = NoStats
  /\ inbox_grant = JobGrant
  /\ backfill_q = {BackfillJob(1, JobGrant)}
  /\ thread_q = {}
  /\ webhook_q = {}
  /\ notif = [n \in {} |-> "pending"]
  /\ nextId = 2
  /\ o = OIdle
  /\ wk = [w \in {"w1"} |-> WkIdle]
  /\ hk = HkIdle
  /\ sm = [p \in {"w1"} |-> SmIdle]
  /\ mon = MonIdle
  /\ budget = [fails |-> MaxFail, crashes |-> 0, timeouts |-> 0]
  /\ obs = NoObs
  /\ ExtractionOff

NextPublish ==
  \/ BackfillRun
  \/ O_QueueToPGMQFails
  \/ O_QueueToPGMQThrows
  \/ O_BulkPublishFails

SpecPublish == InitPublish /\ [][NextPublish]_vars

OnThreadQueue(t) == \E m \in thread_q : m.thread_id = t

\* C27: the orchestration job is deleted only when every work row in status
\* queued has a message on thread_sync_jobs; a failed publication keeps the
\* job.
C27_DeleteOnlyWhenAllPublished ==
  [][(o.pc = "delete" /\ backfill_q' # backfill_q) =>
       \A t \in ThreadIds :
         RowStatus(queued_threads, t) = "queued" => OnThreadQueue(t)]_vars

\* The page the orchestrator would ask the provider for with a page token.
PageOf(token) == IF token = NoToken THEN 1 ELSE token

\* The cursor of the job in hand is exhausted: the last page had no next
\* cursor, or the page asked for is empty.
CursorExhausted == o.pageToken = NoToken \/ ListPage(o.pageToken).data = <<>>

\* The orchestrator is inside the page loop of a job and has a page to do.
PagesRemain ==
  /\ o.msg_id # 0
  /\ \/ o.pc \in {"list", "check_exists", "insert"}
     \/ o.pc \in {"publish", "stamp"} /\ o.ret = "page"
     \/ o.pc = "checkpoint" /\ o.pageToken # NoToken

ThreadPublished == \E m \in thread_q' : \A n \in thread_q : n.id # m.id

\* C29: no message is published to thread_sync_jobs while the status of the
\* configuration is backfill.
C29_NoPublishDuringBackfill ==
  [][ThreadPublished => cfg.backfill_status # "backfill"]_vars

\* C30: when the orchestrator reads its first backfill job after its start,
\* every work row in status queued is on thread_sync_jobs and has
\* pgmq_queued_at set.
C30_SweptBeforeFirstRead ==
  [][(o.pc = "poll" /\ o'.msg_id # 0) =>
       \A t \in ThreadIds :
         RowStatus(queued_threads, t) = "queued" =>
           Row(t).pgmq_queued_at /\ OnThreadQueue(t)]_vars

\* C31: when the bulk publication pass has published its last row, every
\* work row with a message on thread_sync_jobs has pgmq_queued_at set.
C31_BulkPassStamps ==
  (obs.op = "publish" /\ obs.from = "bulk" /\ o.pc = "clear_checkpoint") =>
    \A t \in ThreadIds :
      (OnThreadQueue(t) /\ RowStatus(queued_threads, t) # "none") =>
        Row(t).pgmq_queued_at

\* ------------------------------------------------------------ SpecThreads
\* One thread-sync worker on the jobs of T1 and T2, whose work rows are
\* queued and published.  The jobs carry a grant or none, the inbox binding
\* holds a grant or none, and the jobs are new or were read
\* prior times by a worker that died.  The provider may throw, may not have
\* the thread any more, or may list no message for it.
InitThreads ==
  /\ InitWorkers({"w1"}, {"w1"})
  /\ \E g \in {JobGrant, NoGrant}, prior \in {0, THREAD_MAX_RETRIES - 1, THREAD_MAX_RETRIES} :
       /\ queued_threads = [t \in ThreadIds |-> <<PublishedRow(g)>>]
       /\ thread_q = {[ThreadJob(1, "T1", g) EXCEPT !.read_ct = prior],
                      ThreadJob(2, "T2", g)}
  /\ webhook_q = {}
  /\ notif = [n \in {} |-> "pending"]
  /\ nextId = 3
  /\ budget = [fails |-> MaxFail, crashes |-> 0, timeouts |-> 0]

\* The inbox binding lost its grant before the worker started; both jobs are
\* new.
InitThreadsNoGrant ==
  /\ deploy = [variant |-> "immediate", testingMode |-> FALSE, autoRecovery |-> TRUE,
               legacyRows |-> FALSE, synced |-> FALSE]
  /\ SyncedTables(FALSE)
  /\ cfg = [CfgIdle EXCEPT !.backfill_status = "thread_sync", !.started_at = TRUE]
  /\ stats = initialize_sync_stats(0)
  /\ inbox_grant = NoGrant
  /\ backfill_q = {}
  /\ o = OPoll
  /\ wk = [w \in {"w1"} |-> WkIdle]
  /\ hk = HkIdle
  /\ sm = [p \in {"w1"} |-> SmIdle]
  /\ mon = MonIdle
  /\ obs = NoObs
  /\ ExtractionOff
  /\ queued_threads = [t \in ThreadIds |-> <<PublishedRow(NoGrant)>>]
  /\ thread_q = {ThreadJob(1, "T1", NoGrant), ThreadJob(2, "T2", NoGrant)}
  /\ webhook_q = {}
  /\ notif = [n \in {} |-> "pending"]
  /\ nextId = 3
  /\ budget = [fails |-> MaxFail, crashes |-> 0, timeouts |-> 0]

NextThreads ==
  \/ \E w \in DOMAIN wk :
       \/ ThreadSyncProcessor(w)
       \/ ThreadJobProviderThrows(w)
       \/ ThreadJobNotFound(w)
       \/ ThreadJobNoMessages(w)
       \/ SyncProviderThrows(w)
  \/ ThreadJobRedelivery

SpecThreads == (InitThreads \/ InitThreadsNoGrant) /\ [][NextThreads]_vars

\* C32: a job without a grant_id, on an inbox whose binding holds no grant,
\* leaves the queue with its work row in status failed.
C32_NoGrantFailsRow ==
  [][\A w \in DOMAIN wk :
       ( /\ wk[w].pc \in {"complete_delete", "limit_delete"}
         /\ wk'[w].pc = "poll"
         /\ wk[w].grant_id = NoGrant
         /\ inbox_grant = NoGrant )
       => RowStatus(queued_threads', wk[w].thread_id) = "failed"]_vars

\* The delivery worker w is processing throws in this step: the provider
\* throws, or the job has no grant and the inbox binding has none.
ThreadAttemptThrows(w) ==
  \/ wk[w].pc = "mark" /\ obs'.op = "thread_attempt_failed"
  \/ wk[w].pc = "resolve_grant" /\ inbox_grant = NoGrant /\ wk'[w] # wk[w]

Terminal == {"completed", "failed"}

\* C33: a delivery that throws with read_ct below 5 ends with the worker back
\* at its poll, the queue as it was (the message still on it, hidden until
\* its visibility timeout ends) and the work row in no terminal status.
C33_ThrowBelowLimitKeepsJob ==
  [][\A w \in DOMAIN wk :
       (ThreadAttemptThrows(w) /\ wk[w].read_ct < THREAD_MAX_RETRIES) =>
         /\ wk'[w] = WkIdle
         /\ thread_q' = thread_q
         /\ \E m \in thread_q' : m.id = wk[w].msg_id /\ ~m.vis
         /\ RowStatus(queued_threads', wk[w].thread_id) \notin Terminal]_vars

C33_FailedAttemptWaits ==
  /\ obs.op = "thread_attempt_failed"
  /\ obs.read_ct < THREAD_MAX_RETRIES
  /\ wk["w1"] = WkIdle
  /\ RowStatus(queued_threads, obs.t) = "processing"
  /\ \E m \in thread_q : m.thread_id = obs.t /\ ~m.vis /\ m.read_ct = obs.read_ct

\* The job worker w has in hand went to completeThread before its message
\* loop began.
ClosedUnsynced(w) == wk[w].i = 0 /\ wk[w].success /\ wk[w].synced = 0

\* C34: when the provider does not have the thread, or lists no message for
\* it, the worker goes to completeThread(.., 0, true): the work row it moved
\* to processing becomes completed with messages_synced 0 and the message is
\* deleted.
C34_MissingThreadCompletesEmpty ==
  [][\A w \in DOMAIN wk :
       /\ (wk[w].pc = "mark" /\ obs'.op \in {"thread_not_found", "thread_empty"}) =>
            /\ wk'[w].pc = "complete_update"
            /\ ClosedUnsynced(w)'
            /\ RowStatus(queued_threads, wk[w].thread_id) = "queued" =>
                 RowStatus(queued_threads', wk[w].thread_id) = "processing"
       /\ ( /\ wk[w].pc = "complete_update"
            /\ wk'[w] # wk[w]
            /\ ClosedUnsynced(w)
            /\ RowStatus(queued_threads, wk[w].thread_id) = "processing" ) =>
            /\ Row(wk[w].thread_id)' =
                 [Row(wk[w].thread_id) EXCEPT !.status = "completed",
                                              !.messages_synced = 0]
            /\ wk'[w].pc = "complete_delete"
       /\ (wk[w].pc = "complete_delete" /\ wk'[w] # wk[w] /\ ClosedUnsynced(w)) =>
            /\ \A m \in thread_q' : m.id # wk[w].msg_id
            /\ wk'[w] = WkIdle]_vars

C34_MissingThreadClosed ==
  /\ wk["w1"].pc = "complete_delete"
  /\ ClosedUnsynced("w1")
  /\ Row(wk["w1"].thread_id).status = "completed"
  /\ Row(wk["w1"].thread_id).messages_synced = 0
  /\ threads[wk["w1"].thread_id] = 0

\* C35: in the message loop a syncMessage that threw is not counted and one
\* that returned is; either way the next message is attempted, and after the
\* last one the worker closes the row as completed with the count and
\* deletes the message.
C35_MessageFailuresCounted ==
  [][\A w \in DOMAIN wk :
       LET msgs == ProviderMessages(wk[w].thread_id)
           step == wk'[w] # wk[w]
       IN
       /\ (wk[w].pc = "sync" /\ sm[w].pc \in {"ok", "err"} /\ step) =>
            /\ wk'[w].synced = wk[w].synced + (IF sm[w].pc = "ok" THEN 1 ELSE 0)
            /\ IF wk[w].i < Len(msgs)
                 THEN /\ wk'[w].pc = "sync"
                      /\ wk'[w].i = wk[w].i + 1
                      /\ sm'[w] = SmCall(msgs[wk[w].i + 1])
                 ELSE /\ wk'[w].pc = "complete_update"
                      /\ wk'[w].success
       /\ (wk[w].pc = "complete_update" /\ wk[w].i > 0 /\ step) =>
            /\ wk[w].i = Len(msgs)
            /\ wk[w].success
            /\ RowStatus(queued_threads, wk[w].thread_id) = "processing" =>
                 Row(wk[w].thread_id)' =
                   [Row(wk[w].thread_id) EXCEPT !.status = "completed",
                                                !.messages_synced = wk[w].synced]
       /\ (wk[w].pc = "complete_delete" /\ wk[w].i > 0 /\ step) =>
            \A m \in thread_q' : m.id # wk[w].msg_id]_vars

\* The job of T1 is closed after the sync of one of its two messages threw.
C35_OneOfTwoSynced ==
  /\ wk["w1"].pc = "complete_delete"
  /\ wk["w1"].thread_id = "T1"
  /\ wk["w1"].i = 2
  /\ Row("T1").status = "completed"
  /\ Row("T1").messages_synced = 1

\* C36: the completion monitor does not set the configuration to completed
\* while the orchestrator is in the page loop of its job with a page to do.
C36_NoCompletionWhilePaging ==
  [][(mon' # mon /\ cfg.backfill_status # "completed"
        /\ cfg'.backfill_status = "completed") => ~PagesRemain]_vars

\* ------------------------------------------------------------ SpecMonitor
\* The thread_sync phase of a configuration with the published rows of T1
\* and T2, one worker and the monitor, whose statistics query may fail.
InitMonitor ==
  /\ InitWorkers({"w1"}, {"w1"})
  /\ queued_threads = [t \in ThreadIds |-> <<PublishedRow(JobGrant)>>]
  /\ thread_q = {ThreadJob(1, "T1", JobGrant), ThreadJob(2, "T2", JobGrant)}
  /\ webhook_q = {}
  /\ notif = [n \in {} |-> "pending"]
  /\ nextId = 3
  /\ budget = [fails |-> MaxFail, crashes |-> 0, timeouts |-> 0]

NextMonitor ==
  \/ ThreadSyncWorker
  \/ MonitorConfig
  \/ MonStatsFails

SpecMonitor == InitMonitor /\ [][NextMonitor]_vars

\* C38: a pass of the monitor whose statistics query fails or returns no
\* row does not go on to mark the configuration completed and leaves the
\* stats row as it was.
C38_FailedStatsQueryChangesNothing ==
  [][(mon.pc = "get_stats" /\ obs'.op = "stats_error") =>
       /\ mon'.pc # "mark_cfg"
       /\ cfg' = cfg
       /\ stats' = stats]_vars

\* ------------------------------------------------------------ SpecOverlap
\* Two thread-sync workers and the job of T1, whose visibility timeout may
\* end while a worker is still processing it, so that the other worker reads
\* the same message.  The provider may throw.
InitOverlap ==
  /\ InitWorkers({"w1", "w2"}, {"w1", "w2"})
  /\ queued_threads = [t \in ThreadIds |->
                         IF t = "T1" THEN <<PublishedRow(JobGrant)>> ELSE <<>>]
  /\ thread_q = {ThreadJob(1, "T1", JobGrant)}
  /\ webhook_q = {}
  /\ notif = [n \in {} |-> "pending"]
  /\ nextId = 2
  /\ budget = [fails |-> MaxFail, crashes |-> 0, timeouts |-> MaxTimeout]

NextOverlap ==
  \/ \E w \in DOMAIN wk :
       \/ ThreadSyncJob(w)
       \/ syncMessage(w)
       \/ ThreadJobProviderThrows(w)
       \/ SyncProviderThrows(w)
  \/ ThreadJobTimeout
  \/ ThreadJobRedelivery

SpecOverlap == InitOverlap /\ [][NextOverlap]_vars

\* C37: a work row in a terminal status is not written again: of two workers
\* processing the same message, the first to reach completeThread writes
\* the status and messages_synced, and the UPDATE of the other changes
\* nothing.
C37_TerminalWrittenOnce ==
  [][\A t \in ThreadIds :
       /\ RowStatus(queued_threads, t) \in Terminal => Row(t)' = Row(t)
       /\ ( /\ RowStatus(queued_threads, t) \notin Terminal
            /\ RowStatus(queued_threads', t) \in Terminal ) =>
            \E w \in DOMAIN wk :
              /\ wk[w].pc = "complete_update" /\ wk'[w].pc = "complete_delete"
              /\ wk[w].thread_id = t
              /\ Row(t)'.messages_synced = wk[w].synced
              /\ \A v \in DOMAIN wk \ {w} : wk'[v] = wk[v]]_vars

\* Both workers processed message 1; w1 closed the row with its count and
\* w2, whose count is another, has passed its UPDATE.
C37_SecondWorkerChangedNothing ==
  /\ wk["w2"].pc = "complete_delete"
  /\ wk["w2"].msg_id = 1
  /\ wk["w1"] = WkIdle
  /\ Row("T1").status = "completed"
  /\ Row("T1").messages_synced # wk["w2"].synced
  /\ \A m \in thread_q : m.id # 1

\* -------------------------------------------------------------- SpecSweep
\* The start of the immediate orchestrator with one or two work rows left
\* unpublished by an earlier run, while a thread-sync worker runs.  The rpc
\* of a publication and the UPDATE of pgmq_queued_at may fail.
InitSweep ==
  /\ deploy = [variant |-> "immediate", testingMode |-> FALSE, autoRecovery |-> TRUE,
               legacyRows |-> TRUE, synced |-> FALSE]
  /\ SyncedTables(FALSE)
  /\ \E orphans \in {{"T2"}, {"T1", "T2"}} :
       queued_threads = [t \in ThreadIds |->
                           IF t \in orphans THEN <<NewRow(JobGrant)>> ELSE <<>>]
  /\ cfg = [CfgIdle EXCEPT !.backfill_status = "thread_sync", !.started_at = TRUE]
  /\ stats = initialize_sync_stats(0)
  /\ inbox_grant = JobGrant
  /\ backfill_q = {}
  /\ thread_q = {}
  /\ webhook_q = {}
  /\ notif = [n \in {} |-> "pending"]
  /\ nextId = 1
  /\ o = OIdle
  /\ wk = [w \in {"w1"} |-> WkIdle]
  /\ hk = HkIdle
  /\ sm = [p \in {"w1"} |-> SmIdle]
  /\ mon = MonIdle
  /\ budget = [fails |-> MaxFail, crashes |-> 0, timeouts |-> 0]
  /\ obs = NoObs
  /\ ExtractionOff

NextSweep ==
  \/ O_RecoverBatch
  \/ O_QueueToPGMQ
  \/ O_QueueToPGMQFails
  \/ O_QueueToPGMQThrows
  \/ O_Stamp
  \/ O_StampFails
  \/ ThreadSyncWorker

SpecSweep == InitSweep /\ [][NextSweep]_vars

\* C39: in one start of the orchestrator the recovery publishes each
\* orphaned row at most once: no thread has two messages on
\* thread_sync_jobs.
C39_PublishedOncePerStartup ==
  \A t \in ThreadIds : Cardinality({m \in thread_q : m.thread_id = t}) <= 1

====
